---- MODULE Spec2Model ----
(***************************************************************************)
(* Background job layer of the dealership application: the inventory-import *)
(* worker (src/worker.js), the enqueue interface                            *)
(* (src/lib/queues/inventoryImportQueue.ts), the poll route                 *)
(* (src/app/api/admin/inventory/import/[jobId]/route.ts) and the crm-push   *)
(* worker (src/worker.js).                                                  *)
(*                                                                          *)
(* JavaScript values are tagged records: a string is [str |-> chars] with   *)
(* chars a sequence of one-character strings, so that trim and toUpperCase  *)
(* are computed character by character.                                     *)
(***************************************************************************)
EXTENDS Integers, Sequences, FiniteSets, TLC

(***************************************************************************)
(* Bounds of the model.                                                     *)
(***************************************************************************)
\* Rows plus jobs enqueued on inventory-import in one behaviour: one job of
\* three rows, or two jobs of one row each.
MaxLoad == 4
\* Rare events in one behaviour: a failure of a collaborator (the store, the
\* queue backend), or two store writes within the same millisecond.
MaxFaults == 1
\* crm-push jobs enqueued in one behaviour.
MaxCrmJobs == 1
\* Jobs waiting in one queue at a time.
MaxBacklog == 1
\* Termination signals one worker process receives.
MaxSignals == 2
\* Reminder jobs enqueued.
MaxReminderJobs == 1

(***************************************************************************)
(* JavaScript values.                                                       *)
(***************************************************************************)
Str(chars) == [str |-> chars]
Num(n) == [num |-> n]
Undefined == [undef |-> TRUE]
Null == [null |-> TRUE]
NaN == [nan |-> TRUE]

IsString(v) == DOMAIN v = {"str"}
IsNumber(v) == DOMAIN v = {"num"} \/ DOMAIN v = {"nan"}
IsNaN(v) == DOMAIN v = {"nan"}
\* x ?? null
OrNull(v) == IF v = Undefined \/ v = Null THEN Null ELSE v
\* !value
Falsy(v) ==
    \/ v = Undefined
    \/ v = Null
    \/ v = NaN
    \/ (IsString(v) /\ v.str = <<>>)
    \/ (DOMAIN v = {"num"} /\ v.num = 0)

Lower == <<"a","b","c","d","e","f","g","h","i","j","k","l","m",
           "n","o","p","q","r","s","t","u","v","w","x","y","z">>
Upper == <<"A","B","C","D","E","F","G","H","I","J","K","L","M",
           "N","O","P","Q","R","S","T","U","V","W","X","Y","Z">>
UpperOf == [c \in {Lower[k] : k \in 1..Len(Lower)} |->
               Upper[CHOOSE k \in 1..Len(Lower) : Lower[k] = c]]
WhiteSpace == {" ", "\t", "\n"}

SetMin(S) == CHOOSE x \in S : \A y \in S : x <= y
SetMax(S) == CHOOSE x \in S : \A y \in S : y <= x

\* String.prototype.toUpperCase
toUpperCase(s) ==
    [i \in 1..Len(s) |-> IF s[i] \in DOMAIN UpperOf THEN UpperOf[s[i]] ELSE s[i]]

\* String.prototype.trim
trim(s) ==
    LET keep == {i \in 1..Len(s) : s[i] \notin WhiteSpace}
    IN  IF keep = {} THEN <<>> ELSE SubSeq(s, SetMin(keep), SetMax(keep))

\* String(value), for the values a row field can hold
String(v) ==
    IF IsString(v) THEN v.str
    ELSE IF v = Null THEN <<"n","u","l","l">>
    ELSE <<"u","n","d","e","f","i","n","e","d">>

(***************************************************************************)
(* worker.js: normalizeVin, toVehicleCondition                              *)
(***************************************************************************)
normalizeVinNoTrim(vin) == IF IsString(vin) THEN toUpperCase(vin.str) ELSE <<>>

normalizeVin(vin) == IF IsString(vin) THEN toUpperCase(trim(vin.str)) ELSE <<>>

NoCondition == "null"
VehicleCondition == {"NEW", "USED", "CERTIFIED"}

toVehicleConditionNoCpo(value) ==
    IF Falsy(value) THEN NoCondition
    ELSE LET normalized == toUpperCase(trim(String(value)))
         IN  IF normalized = <<"N","E","W">> THEN "NEW"
             ELSE IF normalized = <<"U","S","E","D">> THEN "USED"
             ELSE IF normalized = <<"C","E","R","T","I","F","I","E","D">>
                  THEN "CERTIFIED"
             ELSE NoCondition

toVehicleCondition(value) ==
    IF Falsy(value) THEN NoCondition
    ELSE LET normalized == toUpperCase(trim(String(value)))
         IN  IF normalized = <<"N","E","W">> THEN "NEW"
             ELSE IF normalized = <<"U","S","E","D">> THEN "USED"
             ELSE IF \/ normalized = <<"C","E","R","T","I","F","I","E","D">>
                     \/ normalized = <<"C","P","O">>
                  THEN "CERTIFIED"
             ELSE NoCondition

(***************************************************************************)
(* Job payload (inventoryImportQueue.ts: InventoryImportRow,                *)
(* InventoryImportJobData) and the rows the model submits.                  *)
(***************************************************************************)
Arr(seq) == [arr |-> seq]
IsArray(v) == DOMAIN v = {"arr"}

InventoryImportRow(vin, condition, price, make, year, images) ==
    [vin |-> vin, stockNumber |-> Undefined, year |-> year, make |-> make,
     model |-> Undefined, trim |-> Null, condition |-> condition,
     price |-> price, mileage |-> Undefined, color |-> Undefined,
     bodyType |-> Undefined, images |-> images]

Vin1FA == <<"1","F","A">>
Vin2FB == <<"2","F","B">>
Ford == Str(<<"F","o","r","d">>)
Kia == Str(<<"K","i","a">>)
Url == Str(<<"u">>)

\* {vin: "1FA", condition: "New", price: 25000}
RowNew == InventoryImportRow(Str(Vin1FA), Str(<<"N","e","w">>), Num(25000),
                             Undefined, Undefined, Undefined)
\* {vin: "", condition: "Used"}
RowEmptyVin == InventoryImportRow(Str(<<>>), Str(<<"U","s","e","d">>), Undefined,
                                  Undefined, Undefined, Undefined)
\* {vin: "2FB", condition: "bogus"}
RowBogus == InventoryImportRow(Str(Vin2FB), Str(<<"b","o","g","u","s">>), Undefined,
                               Undefined, Undefined, Undefined)
\* {vin: "  2fb\t", condition: " cpo ", price: NaN, make: "Ford", year: 2020,
\*  images: ["", "u"]}
RowCpo == InventoryImportRow(Str(<<" "," ","2","f","b","\t">>),
                             Str(<<" ","c","p","o"," ">>), NaN, Ford, Num(2020),
                             Arr(<<Str(<<>>), Url>>))
\* {vin: "1fa", condition: "Certified", price: 100, make: "Kia", year: 2021,
\*  images: []}
RowCertified == InventoryImportRow(Str(<<"1","f","a">>),
                                   Str(<<"C","e","r","t","i","f","i","e","d">>),
                                   Num(100), Kia, Num(2021), Arr(<<>>))
\* The rows of the batches of Spec.
Rows == {RowNew, RowEmptyVin, RowBogus, RowCpo}

\* The VIN and condition values of the single rows of SpecRows.
VinValues ==
    {Str(Vin1FA), Str(<<" ","1","f","A","\t">>), Str(<<"2","f","b">>), Str(<<>>),
     Str(<<" ","\t">>), Undefined, Null, Num(7)}
ConditionValues ==
    {Str(<<"N","E","W">>), Str(<<"n","e","w"," ">>), Str(<<"U","S","E","D">>),
     Str(<<"\t","u","S","e","d">>), Str(<<"C","E","R","T","I","F","I","E","D">>),
     Str(<<"c","e","r","t","i","f","i","e","d">>), Str(<<"C","P","O">>),
     Str(<<" ","c","P","o"," ">>), Str(<<"h","y","b","r","i","d">>),
     Str(<<"N","E","W","E","R">>), Str(<<"C"," ","P","O">>), Str(<<>>),
     Str(<<" ">>), Undefined, Null}
WideRows ==
    {InventoryImportRow(v, c, Num(1), Ford, Num(2022), Arr(<<Url>>)) :
        v \in VinValues, c \in ConditionValues}

Dealerships == {"d1", "d2"}

RECURSIVE Batches(_)
\* The non-empty sequences of at most n rows.
Batches(n) ==
    IF n = 0 THEN {}
    ELSE {<<r>> : r \in Rows} \cup
         {Append(b, r) : b \in Batches(n - 1), r \in Rows}

InventoryImportJobData(dealershipId, rows, markMissingAsSold) ==
    [dealershipId |-> dealershipId, rows |-> rows,
     markMissingAsSold |-> markMissingAsSold, totalRows |-> Len(rows)]

(***************************************************************************)
(* State.                                                                   *)
(***************************************************************************)
VARIABLES
    catalog,    \* the vehicle table: normalized VIN -> entry
    now,        \* the clock the store stamps createdAt/updatedAt with (ms)
    jobs,       \* the inventory-import queue: job id -> job record
    nextId,     \* the id the queue assigns next
    submitted,  \* rows enqueued so far
    run,        \* the processor's local variables, per active job
    enqueued,   \* history: job id -> the payload it was enqueued with
    before,     \* history: job id -> the catalog when the job started
    snapshots,  \* history: job id -> the progress values it published
    rejected,   \* history: <<job id, row>> whose upsert the store rejected
    returned,   \* history: job id -> the value the processor returned
    faults,     \* collaborator failures so far
    leads,      \* the lead table: lead id -> lead
    crmJobs,    \* the crm-push queue: job id -> job record
    crmNextId,  \* the id the crm-push queue assigns next
    crmRun,     \* the crm-push processor's local variables, per active job
    crmLog      \* history: crm-push job id -> its finished attempts

\* The state of the inventory import other than the clock and the fault count.
importState == <<catalog, jobs, nextId, submitted, run, enqueued, before,
                 snapshots, rejected, returned>>
importVars == <<importState, now, faults>>
crmVars == <<leads, crmJobs, crmNextId, crmRun, crmLog>>

VARIABLES
    env,        \* process.env: REDIS_URL, DATABASE_URL
    workers,    \* the consumers the process has registered: queue -> Worker
    pool,       \* per queue: jobs waiting, and jobs whose processor is running
    connection, \* the shared queue connection: "none", "open" or "closed"
    shutdowns,  \* the calls of gracefulShutdown, in the order of the signals
    exitCode    \* Null while the process runs, else the status it exited with

procVars == <<env, workers, pool, connection, shutdowns, exitCode>>

VARIABLES
    upload      \* the last upload request and the response to it, or Null

webVars == <<upload>>

VARIABLES
    appointments,  \* the appointments in the data store, by id
    remJobs,       \* the jobs of the appointment-reminders queue, by id
    remNextId,     \* the id the queue gives the next reminder job
    remRun,        \* the reminder processor's position and locals, by job
    remLog         \* history: the attempts of each reminder job that ended

reminderVars == <<appointments, remJobs, remNextId, remRun, remLog>>

(***************************************************************************)
(* The store: prisma.vehicle.upsert and prisma.vehicle.updateMany.  VIN is  *)
(* the unique key; a create stamps createdAt and updatedAt with the same    *)
(* time, an update stamps updatedAt only.                                   *)
(***************************************************************************)
Has(f, k) == k \in DOMAIN f
Put(f, k, v) == [x \in DOMAIN f \cup {k} |-> IF x = k THEN v ELSE f[x]]
Drop(f, k) == [x \in DOMAIN f \ {k} |-> f[x]]
Empty == [x \in {} |-> x]

DataFields == {"dealershipId", "stockNumber", "year", "make", "model", "trim",
               "condition", "price", "mileage", "exteriorColor", "bodyType",
               "images", "availability"}

\* The data object of one row (worker.js 212-236).
RowData(raw, dealershipId, condition) ==
    [dealershipId |-> dealershipId,
     stockNumber |-> OrNull(raw.stockNumber),
     year |-> OrNull(raw.year),
     make |-> OrNull(raw.make),
     model |-> OrNull(raw.model),
     trim |-> OrNull(raw.trim),
     condition |-> condition,
     price |-> IF IsNumber(raw.price) /\ ~IsNaN(raw.price)
               THEN [decimal |-> raw.price.num] ELSE Null,
     mileage |-> OrNull(raw.mileage),
     exteriorColor |-> OrNull(raw.color),
     bodyType |-> OrNull(raw.bodyType),
     images |-> IF IsArray(raw.images) /\ Len(raw.images.arr) > 0
                THEN SelectSeq(raw.images.arr, LAMBDA u : ~Falsy(u))
                ELSE <<>>,
     availability |-> "IN_STOCK"]

\* vehicleUpsert with an update that keeps the old value where the row has none.
vehicleUpsertMerging(cat, vin, data, t) ==
    IF Has(cat, vin)
    THEN Put(cat, vin,
             [f \in DOMAIN cat[vin] |->
                 IF f \in {"dealershipId", "condition", "availability", "images"}
                 THEN data[f]
                 ELSE IF f \in DataFields /\ data[f] # Null THEN data[f]
                 ELSE IF f = "updatedAt" THEN t
                 ELSE cat[vin][f]])
    ELSE Put(cat, vin,
             [f \in DataFields \cup {"vin", "featured", "createdAt", "updatedAt"} |->
                 IF f \in DataFields THEN data[f]
                 ELSE IF f = "vin" THEN vin
                 ELSE IF f = "featured" THEN FALSE
                 ELSE t])

\* vehicleUpsert with the create object used for the update as well.
vehicleUpsertCreateData(cat, vin, data, t) ==
    Put(cat, vin,
        [f \in DataFields \cup {"vin", "featured", "createdAt", "updatedAt"} |->
            IF f \in DataFields THEN data[f]
            ELSE IF f = "vin" THEN vin
            ELSE IF f = "featured" THEN FALSE
            ELSE IF f = "createdAt" /\ Has(cat, vin) THEN cat[vin].createdAt
            ELSE t])

\* vehicle.upsert({where: {vin}, update: data, create: {...data, vin, featured: false}})
vehicleUpsert(cat, vin, data, t) ==
    IF Has(cat, vin)
    THEN Put(cat, vin,
             [f \in DOMAIN cat[vin] |->
                 IF f \in DataFields THEN data[f]
                 ELSE IF f = "updatedAt" THEN t
                 ELSE cat[vin][f]])
    ELSE Put(cat, vin,
             [f \in DataFields \cup {"vin", "featured", "createdAt", "updatedAt"} |->
                 IF f \in DataFields THEN data[f]
                 ELSE IF f = "vin" THEN vin
                 ELSE IF f = "featured" THEN FALSE
                 ELSE t])

\* MissingInStock with `in` for `notIn`.
MissingInStockIn(cat, dealershipId, seenVins) ==
    {v \in DOMAIN cat : /\ cat[v].dealershipId = dealershipId
                        /\ cat[v].availability = "IN_STOCK"
                        /\ v \in seenVins}

\* The entries vehicle.updateMany selects (worker.js 270-274).
MissingInStock(cat, dealershipId, seenVins) ==
    {v \in DOMAIN cat : /\ cat[v].dealershipId = dealershipId
                        /\ cat[v].availability = "IN_STOCK"
                        /\ v \notin seenVins}

\* vehicleUpdateMany as a deleteMany of the selected entries.
vehicleDeleteMany(cat, dealershipId, seenVins, t) ==
    [v \in DOMAIN cat \ MissingInStock(cat, dealershipId, seenVins) |-> cat[v]]

\* vehicle.updateMany({where: ..., data: {availability: SOLD}})
vehicleUpdateMany(cat, dealershipId, seenVins, t) ==
    [v \in DOMAIN cat |->
        IF v \in MissingInStock(cat, dealershipId, seenVins)
        THEN [cat[v] EXCEPT !.availability = "SOLD", !.updatedAt = t]
        ELSE cat[v]]

(***************************************************************************)
(* Error messages of a row.                                                 *)
(***************************************************************************)
MissingVIN == <<"M","i","s","s","i","n","g"," ","V","I","N">>
UnknownError == <<"U","n","k","n","o","w","n"," ","e","r","r","o","r">>
\* `Invalid condition "${raw.condition}"`
InvalidCondition(value) ==
    <<"I","n","v","a","l","i","d"," ","c","o","n","d","i","t","i","o","n"," ","\"">>
    \o String(value) \o <<"\"">>
\* The messages of the errors the store rejects an upsert with.
StoreErrors == {<<"P","1","0","0","1">>, <<>>}

\* RowError with the loop's 0-based index.
RowErrorAtIndex(index, message) ==
    [row |-> index, error |-> IF message = <<>> THEN UnknownError ELSE message]

\* errors.push({row: index + 1, error: rowError.message || "Unknown error"})
RowError(index, message) ==
    [row |-> index + 1, error |-> IF message = <<>> THEN UnknownError ELSE message]

\* IsCreated with <= for ===.
IsCreatedLax(result) == result.createdAt <= result.updatedAt

\* result.createdAt.getTime() === result.updatedAt.getTime()
IsCreated(result) == result.createdAt = result.updatedAt

(***************************************************************************)
(* inventoryImportQueue.ts: enqueueInventoryImport                          *)
(***************************************************************************)
\* ImportJobOptions with three attempts.
ImportJobOptionsRetried == [attempts |-> 3, removeOnComplete |-> TRUE, removeOnFail |-> FALSE]

\* The options every inventory-import job is added with.
ImportJobOptions == [attempts |-> 1, removeOnComplete |-> TRUE, removeOnFail |-> FALSE]

\* No inventory-import job is waiting or running.
Idle == \A id \in DOMAIN jobs : jobs[id].state \notin {"waiting", "active"}

enqueueInventoryImport(job) ==
    /\ submitted + Len(job.rows) + nextId <= MaxLoad
    /\ jobs' = Put(jobs, nextId,
                   [id |-> nextId, data |-> job, opts |-> ImportJobOptions,
                    state |-> "waiting", progress |-> Num(0),
                    returnvalue |-> Null, failedReason |-> Null,
                    attemptsMade |-> 0, timestamp |-> now,
                    processedOn |-> Null, finishedOn |-> Null])
    /\ enqueued' = Put(enqueued, nextId, job)
    /\ nextId' = nextId + 1
    /\ submitted' = submitted + Len(job.rows)
    /\ UNCHANGED <<catalog, now, run, before, snapshots, rejected, returned, faults>>
    /\ UNCHANGED <<crmVars, procVars, reminderVars>>

(***************************************************************************)
(* worker.js: the inventory-import processor, one action per await.         *)
(***************************************************************************)
\* The messages of the errors that reject the job-level calls.
ProgressFailed == <<"r","e","d","i","s">>
ReconcileFailed == <<"d","b">>
DisconnectFailed == <<"d","i","s","c","o","n","n","e","c","t">>

InventoryConcurrency == 2

\* The worker takes a waiting job; the processor initialises its variables
\* (worker.js 174-192).  Taking the job and connecting a new store client
\* takes time: the clock has advanced when the first row is written.
StartJob(id) ==
    /\ Has(jobs, id) /\ jobs[id].state = "waiting"
    /\ Cardinality(DOMAIN run) < InventoryConcurrency
    /\ now' = now + 1
    /\ jobs' = [jobs EXCEPT ![id].state = "active", ![id].processedOn = Num(now')]
    /\ run' = Put(run, id,
                  [pc |-> "row", index |-> 0, errors |-> <<>>, seenVins |-> {},
                   created |-> 0, updated |-> 0, processed |-> 0, markedSold |-> 0])
    /\ before' = Put(before, id, catalog)
    /\ snapshots' = Put(snapshots, id, <<>>)
    /\ UNCHANGED <<catalog, nextId, submitted, enqueued, rejected, returned, faults>>
    /\ UNCHANGED <<crmVars, procVars, webVars, reminderVars>>

\* The job's attempt ended with an error: the finally block has run, and the
\* runtime counts the attempt; the job waits for another attempt while
\* attempts are left (no backoff is set), else it moves to failed, where it is
\* kept unless removeOnFail.
JobFailed(id, reason) ==
    /\ faults < MaxFaults
    /\ faults' = faults + 1
    /\ run' = Drop(run, id)
    /\ jobs' = IF jobs[id].attemptsMade + 1 < jobs[id].opts.attempts
               THEN [jobs EXCEPT ![id].state = "waiting",
                                 ![id].attemptsMade = @ + 1]
               ELSE IF jobs[id].opts.removeOnFail THEN Drop(jobs, id)
               ELSE [jobs EXCEPT ![id].state = "failed",
                                 ![id].failedReason = Str(reason),
                                 ![id].attemptsMade = @ + 1,
                                 ![id].finishedOn = Num(now)]

\* RowFailed with an empty catch block.
RowFailedSilently(id, seen, message) ==
    /\ run' = [run EXCEPT ![id].pc = "progress",
                          ![id].processed = @ + 1,
                          ![id].seenVins = seen]
    /\ UNCHANGED <<catalog, now>>

\* RowFailed with the error leaving the processor instead of being recorded.
RowFailedAborts(id, seen, message) ==
    /\ run' = Drop(run, id)
    /\ UNCHANGED <<catalog, now>>

\* The catch of one row (worker.js 253-258).
RowFailed(id, seen, message) ==
    /\ run' = [run EXCEPT ![id].pc = "progress",
                          ![id].processed = @ + 1,
                          ![id].seenVins = seen,
                          ![id].errors = Append(@, RowError(run[id].index, message))]
    /\ UNCHANGED <<catalog, now>>

\* Classified without the else.
ClassifiedNoElse(l, result) ==
    IF IsCreated(result)
    THEN [l EXCEPT !.created = @ + 1, !.updated = @ + 1]
    ELSE [l EXCEPT !.updated = @ + 1]

\* The counters after an upsert that returned result (worker.js 248-252).
Classified(l, result) ==
    IF IsCreated(result)
    THEN [l EXCEPT !.created = @ + 1]
    ELSE [l EXCEPT !.updated = @ + 1]

\* The row of an iteration, had the loop run from the last row to the first.
RowAtReversed(rows, index) == rows[Len(rows) - index]

\* const raw = rows[index] (worker.js 195-196; sequences count from 1).
RowAt(rows, index) == rows[index + 1]

\* seenVins when the VIN check throws, had the add preceded the check.
SeenBeforeVinCheck(seenVins, vin) == seenVins \cup {vin}

\* seenVins when the VIN check throws: seenVins.add(vin) follows it
\* (worker.js 200-205).
SeenAtVinCheck(seenVins, vin) == seenVins

\* seenVins when the condition check throws, had the add followed the check.
SeenAfterConditionCheck(seenVins, vin) == seenVins

\* seenVins when the condition check throws: seenVins.add(vin) precedes it
\* (worker.js 205-210).
SeenAtConditionCheck(seenVins, vin) == seenVins \cup {vin}

\* One iteration of the row loop up to its catch (worker.js 196-258).
ProcessRow(id) ==
    /\ Has(run, id) /\ run[id].pc = "row"
    /\ LET l == run[id]
           job == jobs[id].data
           raw == RowAt(job.rows, l.index)
           vin == normalizeVin(raw.vin)
           condition == toVehicleCondition(raw.condition)
       IN  IF vin = <<>>
           THEN /\ RowFailed(id, SeenAtVinCheck(l.seenVins, vin), MissingVIN)
                /\ UNCHANGED <<rejected, faults>>
           ELSE IF condition = NoCondition
           THEN /\ RowFailed(id, SeenAtConditionCheck(l.seenVins, vin),
                             InvalidCondition(raw.condition))
                /\ UNCHANGED <<rejected, faults>>
           ELSE \/ \E dt \in {0, 1} :
                     \* dt = 0: the write falls in the millisecond of the last one
                     LET t == now + dt
                         written == vehicleUpsert(catalog, vin,
                                        RowData(raw, job.dealershipId, condition), t)
                     IN  /\ catalog' = written
                         /\ now' = t
                         /\ run' = [run EXCEPT ![id] =
                                [Classified(l, written[vin]) EXCEPT
                                    !.pc = "progress",
                                    !.processed = @ + 1,
                                    !.seenVins = @ \cup {vin}]]
                         /\ dt = 0 => faults < MaxFaults
                         /\ faults' = IF dt = 0 THEN faults + 1 ELSE faults
                         /\ UNCHANGED rejected
                \/ \E message \in StoreErrors :
                     /\ faults < MaxFaults
                     /\ faults' = faults + 1
                     /\ RowFailed(id, l.seenVins \cup {vin}, message)
                     /\ rejected' = rejected \cup {<<id, l.index + 1>>}
    /\ UNCHANGED <<jobs, nextId, submitted, enqueued, before, snapshots, returned>>
    /\ UNCHANGED <<crmVars, procVars, webVars, reminderVars>>

\* Progress with the loop index for processed.
ProgressOfIndex(l, job) == [processed |-> l.index, total |-> job.totalRows]

\* The value handed to job.updateProgress (worker.js 260-263).
Progress(l, job) == [processed |-> l.processed, total |-> job.totalRows]

\* await job.updateProgress(...) and the loop's increment and test.
UpdateProgress(id) ==
    /\ Has(run, id) /\ run[id].pc = "progress"
    /\ LET l == run[id]
           job == jobs[id].data
           value == Progress(l, job)
       IN  \/ /\ jobs' = [jobs EXCEPT ![id].progress = [obj |-> value]]
              /\ snapshots' = [snapshots EXCEPT ![id] = Append(@, value)]
              /\ run' = [run EXCEPT ![id].index = @ + 1,
                                    ![id].pc = IF l.index + 1 < Len(job.rows)
                                               THEN "row" ELSE "reconcile"]
              /\ UNCHANGED faults
           \/ /\ JobFailed(id, ProgressFailed)
              /\ UNCHANGED snapshots
    /\ UNCHANGED <<catalog, now, nextId, submitted, enqueued, before, rejected,
                   returned>>
    /\ UNCHANGED <<crmVars, procVars, webVars, reminderVars>>

\* The guard without the test of seenVins.
ShouldReconcileUnseen(job, l) == job.markMissingAsSold

\* The guard of the reconciliation (worker.js 268).
ShouldReconcile(job, l) == job.markMissingAsSold /\ Cardinality(l.seenVins) > 0

\* The reconciliation after the loop (worker.js 266-280).
Reconcile(id) ==
    /\ Has(run, id) /\ run[id].pc = "reconcile"
    /\ LET l == run[id]
           job == jobs[id].data
       IN  IF ShouldReconcile(job, l)
           THEN \/ /\ catalog' = vehicleUpdateMany(catalog, job.dealershipId,
                                                   l.seenVins, now)
                   /\ run' = [run EXCEPT
                         ![id].pc = "return",
                         ![id].markedSold =
                            Cardinality(MissingInStock(catalog, job.dealershipId,
                                                       l.seenVins))]
                   /\ UNCHANGED <<jobs, faults>>
                \/ /\ JobFailed(id, ReconcileFailed)
                   /\ UNCHANGED catalog
           ELSE /\ run' = [run EXCEPT ![id].pc = "return"]
                /\ UNCHANGED <<catalog, jobs, faults>>
    /\ UNCHANGED <<now, nextId, submitted, enqueued, before, snapshots, rejected,
                   returned>>
    /\ UNCHANGED <<crmVars, procVars, webVars, reminderVars>>

\* The Import Result (worker.js 282-289).
ImportResult(l, job) ==
    [processed |-> l.processed, total |-> job.totalRows, created |-> l.created,
     updated |-> l.updated, errors |-> l.errors, markedSold |-> l.markedSold]

\* return, the finally block, and the runtime recording the completion: the
\* job is removed when it was added with removeOnComplete.
Complete(id) ==
    /\ Has(run, id) /\ run[id].pc = "return"
    /\ LET result == ImportResult(run[id], jobs[id].data)
       IN  \/ /\ run' = Drop(run, id)
              /\ returned' = Put(returned, id, result)
              /\ jobs' = IF jobs[id].opts.removeOnComplete THEN Drop(jobs, id)
                         ELSE [jobs EXCEPT ![id].state = "completed",
                                           ![id].returnvalue = result,
                                           ![id].attemptsMade = @ + 1,
                                           ![id].finishedOn = Num(now)]
              /\ UNCHANGED faults
           \/ \* prisma.$disconnect() rejects in the finally block
              /\ JobFailed(id, DisconnectFailed)
              /\ UNCHANGED returned
    /\ UNCHANGED <<catalog, now, nextId, submitted, enqueued, before, snapshots,
                   rejected>>
    /\ UNCHANGED <<crmVars, procVars, webVars, reminderVars>>

(***************************************************************************)
(* route.ts: GET /api/admin/inventory/import/[jobId], the response as a     *)
(* function of the queue's state.                                           *)
(***************************************************************************)
\* job.finishedOn ?? job.processedOn ?? job.timestamp
Timestamp(job) ==
    IF job.finishedOn # Null THEN job.finishedOn.num
    ELSE IF job.processedOn # Null THEN job.processedOn.num
    ELSE job.timestamp

GET(jobId) ==
    IF ~Has(jobs, jobId)
    THEN [status |-> 404]
    ELSE LET job == jobs[jobId]
         IN  [status |-> 200,
              body |-> [id |-> job.id,
                        state |-> job.state,
                        progress |-> IF DOMAIN job.progress = {"obj"}
                                     THEN job.progress.obj
                                     ELSE [processed |-> 0],
                        result |-> job.returnvalue,
                        failedReason |-> job.failedReason,
                        timestamp |-> Timestamp(job)]]

(***************************************************************************)
(* worker.js: the crm-push consumer.  A job carries {leadId}; the producer  *)
(* of these jobs is not part of the sources at hand, and the options it     *)
(* adds a job with are the retry policy the specification gives the queue.  *)
(* An attempt that throws is retried by the queue runtime after the job's   *)
(* backoff while attemptsMade, counted when an attempt ends, is below the   *)
(* job's attempts.                                                          *)
(***************************************************************************)
Leads == {"l1"}
\* The lead ids a job may carry: "l0" is the id of no lead.
LeadRefs == Leads \cup {"l0"}

\* The options of the Worker (worker.js 97-105).
CrmWorkerOptions ==
    [concurrency |-> 5, attempts |-> 3,
     backoff |-> [type |-> "exponential", delay |-> 2000]]

\* The options a crm-push job is added with.
CrmJobOptions ==
    [attempts |-> 3, backoff |-> [type |-> "exponential", delay |-> 2000]]

LeadNotFound == Str(<<"n","o","t"," ","f","o","u","n","d">>)
PushFailed == Str(<<"p","u","s","h">>)
StoreFailed == Str(<<"d","b">>)
\* The rejection of lead.update for a record that does not exist.
LeadUpdateFailed == Str(<<"n","o"," ","r","e","c","o","r","d">>)

enqueueCrmPush(leadId) ==
    /\ crmNextId <= MaxCrmJobs
    /\ crmJobs' = Put(crmJobs, crmNextId,
                      [id |-> crmNextId, data |-> [leadId |-> leadId],
                       opts |-> CrmJobOptions, state |-> "waiting",
                       attemptsMade |-> 0, delayedUntil |-> 0,
                       returnvalue |-> Null, failedReason |-> Null])
    /\ crmLog' = Put(crmLog, crmNextId, <<>>)
    /\ crmNextId' = crmNextId + 1
    /\ UNCHANGED <<leads, crmRun, importVars, procVars,
                   webVars, reminderVars>>

\* The delay before the retry that follows the attemptsMade-th attempt.
Backoff(backoff, attemptsMade) ==
    IF backoff.type = "exponential"
    THEN (2 ^ (attemptsMade - 1)) * backoff.delay
    ELSE backoff.delay

\* The worker takes a waiting job and calls the processor.
CrmStart(id) ==
    /\ crmJobs[id].state = "waiting"
    /\ Cardinality(DOMAIN crmRun) < CrmWorkerOptions.concurrency
    /\ crmJobs' = [crmJobs EXCEPT ![id].state = "active"]
    /\ crmRun' = Put(crmRun, id, [pc |-> "find", push |-> "none", error |-> Null,
                         startedAt |-> now])
    /\ UNCHANGED <<leads, crmNextId, crmLog, importVars, procVars,
                   webVars, reminderVars>>

\* CrmFind without the not-found check.
CrmFindUnchecked(id) ==
    /\ Has(crmRun, id) /\ crmRun[id].pc = "find"
    /\ \/ /\ crmRun' = [crmRun EXCEPT ![id].pc = "push"]
          /\ UNCHANGED faults
       \/ /\ faults < MaxFaults
          /\ faults' = faults + 1
          /\ crmRun' = [crmRun EXCEPT ![id].pc = "catch", ![id].error = StoreFailed]
    /\ UNCHANGED <<leads, crmJobs, crmNextId, crmLog, importState, now, procVars,
                   webVars, reminderVars>>

\* await prisma.lead.findUnique(...) and the not-found check (worker.js 57-64).
CrmFind(id) ==
    /\ Has(crmRun, id) /\ crmRun[id].pc = "find"
    /\ \/ /\ crmRun' = IF crmJobs[id].data.leadId \in DOMAIN leads
                       THEN [crmRun EXCEPT ![id].pc = "push"]
                       ELSE [crmRun EXCEPT ![id].pc = "catch",
                                           ![id].error = LeadNotFound]
          /\ UNCHANGED faults
       \/ /\ faults < MaxFaults
          /\ faults' = faults + 1
          /\ crmRun' = [crmRun EXCEPT ![id].pc = "catch", ![id].error = StoreFailed]
    /\ UNCHANGED <<leads, crmJobs, crmNextId, crmLog, importState, now, procVars,
                   webVars, reminderVars>>

\* await pushLeadToDealerSocket(lead): the external push succeeds or throws.
CrmPush(id) ==
    /\ Has(crmRun, id) /\ crmRun[id].pc = "push"
    /\ \/ crmRun' = [crmRun EXCEPT ![id].pc = "update", ![id].push = "ok"]
       \/ crmRun' = [crmRun EXCEPT ![id].pc = "catch", ![id].push = "failed",
                                    ![id].error = PushFailed]
    /\ UNCHANGED <<leads, crmJobs, crmNextId, crmLog, importVars, procVars,
                   webVars, reminderVars>>

\* await prisma.lead.update({pushedToCRM: true, updatedAt: new Date()})
CrmUpdate(id) ==
    /\ Has(crmRun, id) /\ crmRun[id].pc = "update"
    /\ \/ /\ leads' = [leads EXCEPT ![crmJobs[id].data.leadId] =
                          [@ EXCEPT !.pushedToCRM = TRUE, !.updatedAt = now]]
          /\ crmRun' = [crmRun EXCEPT ![id].pc = "return"]
          /\ UNCHANGED faults
       \/ /\ faults < MaxFaults
          /\ faults' = faults + 1
          /\ crmRun' = [crmRun EXCEPT ![id].pc = "catch", ![id].error = StoreFailed]
          /\ UNCHANGED leads
    /\ UNCHANGED <<crmJobs, crmNextId, crmLog, importState, now, procVars,
                   webVars, reminderVars>>

\* An attempt of the job ended; the record of it in the history.
Attempt(id, error, backoff) ==
    [startedAt |-> crmRun[id].startedAt, endedAt |-> now,
     attemptsMade |-> crmJobs[id].attemptsMade, push |-> crmRun[id].push,
     error |-> error, backoff |-> backoff]

\* The processor returned: the runtime completes the job.
AttemptCompleted(id, value) ==
    /\ crmJobs' = [crmJobs EXCEPT ![id].state = "completed",
                                  ![id].returnvalue = value,
                                  ![id].attemptsMade = @ + 1]
    /\ crmLog' = [crmLog EXCEPT ![id] = Append(@, Attempt(id, Null, Null))]
    /\ crmRun' = Drop(crmRun, id)

\* The processor threw: the runtime counts the attempt, and delays the job by
\* its backoff when attempts are left, else fails it.
AttemptFailed(id, error) ==
    LET job == crmJobs[id]
        made == job.attemptsMade + 1
        retry == made < job.opts.attempts
        delay == Backoff(job.opts.backoff, made)
    IN  /\ crmJobs' = IF retry
                      THEN [crmJobs EXCEPT ![id].state = "delayed",
                                           ![id].attemptsMade = made,
                                           ![id].delayedUntil = now + delay]
                      ELSE [crmJobs EXCEPT ![id].state = "failed",
                                           ![id].attemptsMade = made,
                                           ![id].failedReason = error]
        /\ crmLog' = [crmLog EXCEPT ![id] =
                         Append(@, Attempt(id, error, IF retry THEN Num(delay) ELSE Null))]
        /\ crmRun' = Drop(crmRun, id)

\* await prisma.$disconnect() and the return (worker.js 77-80).
CrmReturn(id) ==
    /\ Has(crmRun, id) /\ crmRun[id].pc = "return"
    /\ \/ /\ AttemptCompleted(id, [success |-> TRUE])
          /\ UNCHANGED faults
       \/ \* prisma.$disconnect() rejects inside the try block
          /\ faults < MaxFaults
          /\ faults' = faults + 1
          /\ crmRun' = [crmRun EXCEPT ![id].pc = "catch", ![id].error = StoreFailed]
          /\ UNCHANGED <<crmJobs, crmLog>>
    /\ UNCHANGED <<leads, crmNextId, importState, now, procVars,
                   webVars, reminderVars>>

\* CrmCatch without the throw.
CrmCatchSwallows(id) ==
    /\ Has(crmRun, id) /\ crmRun[id].pc = "catch"
    /\ AttemptCompleted(id, Undefined)
    /\ UNCHANGED <<leads, crmNextId, importVars, procVars,
                   webVars, reminderVars>>

\* CrmCatch with the compensating write made in the final attempt.
CrmCatchFinalAttempt(id) ==
    /\ Has(crmRun, id) /\ crmRun[id].pc = "catch"
    /\ LET job == crmJobs[id]
           leadId == job.data.leadId
       IN  IF job.attemptsMade + 1 >= 3
           THEN IF leadId \in DOMAIN leads
                THEN /\ leads' = [leads EXCEPT ![leadId].pushedToCRM = FALSE]
                     /\ AttemptFailed(id, crmRun[id].error)
                ELSE /\ AttemptFailed(id, LeadUpdateFailed)
                     /\ UNCHANGED leads
           ELSE /\ AttemptFailed(id, crmRun[id].error)
                /\ UNCHANGED leads
    /\ UNCHANGED <<crmNextId, importVars, procVars,
                   webVars, reminderVars>>

\* The catch block (worker.js 81-95): the compensating write when
\* job.attemptsMade >= 3, then the error is thrown again.
CrmCatch(id) ==
    /\ Has(crmRun, id) /\ crmRun[id].pc = "catch"
    /\ LET job == crmJobs[id]
           leadId == job.data.leadId
       IN  IF job.attemptsMade >= 3
           THEN IF leadId \in DOMAIN leads
                THEN /\ leads' = [leads EXCEPT ![leadId].pushedToCRM = FALSE]
                     /\ AttemptFailed(id, crmRun[id].error)
                ELSE \* lead.update rejects: its error replaces the first
                     /\ AttemptFailed(id, LeadUpdateFailed)
                     /\ UNCHANGED leads
           ELSE /\ AttemptFailed(id, crmRun[id].error)
                /\ UNCHANGED leads
    /\ UNCHANGED <<crmNextId, importVars, procVars,
                   webVars, reminderVars>>

\* The backoff of a delayed job has elapsed: it waits for the worker again.
CrmRetry(id) ==
    /\ crmJobs[id].state = "delayed"
    /\ now' = IF now < crmJobs[id].delayedUntil THEN crmJobs[id].delayedUntil ELSE now
    /\ crmJobs' = [crmJobs EXCEPT ![id].state = "waiting"]
    /\ UNCHANGED <<leads, crmNextId, crmRun, crmLog, importState, faults, procVars,
                   webVars, reminderVars>>

CrmInit ==
    /\ leads = [l \in Leads |-> [id |-> l, pushedToCRM |-> FALSE, updatedAt |-> 0]]
    /\ crmJobs = Empty
    /\ crmNextId = 1
    /\ crmRun = Empty
    /\ crmLog = Empty

CrmEnqueue == \E leadId \in LeadRefs : enqueueCrmPush(leadId)

CrmNext ==
    \/ CrmEnqueue
    \/ \E id \in DOMAIN crmJobs : CrmStart(id)
    \/ \E id \in DOMAIN crmRun : CrmFind(id)
    \/ \E id \in DOMAIN crmRun : CrmPush(id)
    \/ \E id \in DOMAIN crmRun : CrmUpdate(id)
    \/ \E id \in DOMAIN crmRun : CrmReturn(id)
    \/ \E id \in DOMAIN crmRun : CrmCatch(id)
    \/ \E id \in DOMAIN crmJobs : CrmRetry(id)

(***************************************************************************)
(* worker.js: the worker process.  Startup checks the environment and       *)
(* registers the three consumers on one shared connection; each consumer    *)
(* takes jobs from its queue while fewer than its concurrency are running;  *)
(* a termination signal calls gracefulShutdown.  Here a job is one of the   *)
(* jobs of its queue: the pool counts them.                                 *)
(***************************************************************************)
Queues == {"crm-push", "appointment-reminders", "inventory-import"}
Signals == {"SIGTERM", "SIGINT"}
\* The values of an environment variable: unset, empty, an address.
EnvValues == {Undefined, Str(<<>>), Str(<<"u">>)}

\* The options of the Worker of appointment-reminders (worker.js 153-161).
ReminderWorkerOptions ==
    [concurrency |-> 10, attempts |-> 2,
     backoff |-> [type |-> "fixed", delay |-> 5000]]

\* Concurrency with the options of crm-push and appointment-reminders swapped.
ConcurrencySwapped(q) ==
    IF q = "crm-push" THEN ReminderWorkerOptions.concurrency
    ELSE IF q = "appointment-reminders" THEN CrmWorkerOptions.concurrency
    ELSE InventoryConcurrency

\* The concurrency option of the Worker of queue q.
Concurrency(q) ==
    IF q = "crm-push" THEN CrmWorkerOptions.concurrency
    ELSE IF q = "appointment-reminders" THEN ReminderWorkerOptions.concurrency
    ELSE InventoryConcurrency

Running == exitCode = Null

\* Startup without the check of DATABASE_URL.
StartupUnchecked(e) == ~Falsy(e.REDIS_URL)

\* The environment passes the checks at startup (worker.js 4-12).
StartupChecked(e) == ~Falsy(e.REDIS_URL) /\ ~Falsy(e.DATABASE_URL)

\* The script of worker.js up to its last line: the checks, the connection,
\* the three Workers, the signal handlers.
Startup ==
    /\ Running /\ connection = "none"
    /\ IF StartupChecked(env)
       THEN /\ connection' = "open"
            /\ workers' = [q \in Queues |-> [close |-> "none"]]
            /\ UNCHANGED exitCode
       ELSE /\ exitCode' = Num(1)
            /\ UNCHANGED <<connection, workers>>
    /\ UNCHANGED <<env, pool, shutdowns, importVars, crmVars,
                   webVars, reminderVars>>

\* A producer adds a job to queue q.
PoolEnqueue(q) ==
    /\ pool[q].waiting < MaxBacklog
    /\ pool' = [pool EXCEPT ![q].waiting = @ + 1]
    /\ UNCHANGED <<env, workers, connection, shutdowns, exitCode, importVars, crmVars,
                   webVars, reminderVars>>

\* The Worker of q takes a waiting job and calls its processor.
TakeJob(q) ==
    /\ Running /\ Has(workers, q) /\ workers[q].close = "none"
    /\ pool[q].waiting > 0
    /\ pool[q].active < Concurrency(q)
    /\ pool' = [pool EXCEPT ![q].waiting = @ - 1, ![q].active = @ + 1]
    /\ UNCHANGED <<env, workers, connection, shutdowns, exitCode, importVars, crmVars,
                   webVars, reminderVars>>

\* The processor of a job of q returns or throws.
Settle(q) ==
    /\ Running /\ pool[q].active > 0
    /\ pool' = [pool EXCEPT ![q].active = @ - 1]
    /\ UNCHANGED <<env, workers, connection, shutdowns, exitCode, importVars, crmVars,
                   webVars, reminderVars>>

\* SIGTERM or SIGINT: gracefulShutdown runs up to its first await, calling
\* close() on the three Workers (worker.js 334-339).  A Worker that is closing
\* already keeps its pending close.
Signal(signal) ==
    /\ Running /\ connection # "none"
    /\ Len(shutdowns) < MaxSignals
    /\ workers' = [q \in Queues |->
                      IF workers[q].close = "none" THEN [close |-> "pending"]
                      ELSE workers[q]]
    /\ shutdowns' = Append(shutdowns, [signal |-> signal, pc |-> "close"])
    /\ UNCHANGED <<env, pool, connection, exitCode, importVars, crmVars,
                   webVars, reminderVars>>

\* WorkerClosed with close(true): the close does not wait for running jobs.
WorkerClosedForced(q) ==
    /\ Running /\ Has(workers, q) /\ workers[q].close = "pending"
    /\ \/ workers' = [workers EXCEPT ![q].close = "resolved"]
       \/ workers' = [workers EXCEPT ![q].close = "rejected"]
    /\ UNCHANGED <<env, pool, connection, shutdowns, exitCode, importVars, crmVars,
                   webVars, reminderVars>>

\* close() of the Worker of q settles: it resolves once no job of q is
\* running, or it rejects.
WorkerClosed(q) ==
    /\ Running /\ Has(workers, q) /\ workers[q].close = "pending"
    /\ \/ /\ pool[q].active = 0
          /\ workers' = [workers EXCEPT ![q].close = "resolved"]
       \/ workers' = [workers EXCEPT ![q].close = "rejected"]
    /\ UNCHANGED <<env, pool, connection, shutdowns, exitCode, importVars, crmVars,
                   webVars, reminderVars>>

\* Promise.all settles for call k of gracefulShutdown: connection.quit() is
\* called when the three Workers have closed; a rejected close() is caught
\* and the process exits with 1 (worker.js 339-351).
ShutdownClosed(k) ==
    /\ Running /\ shutdowns[k].pc = "close"
    /\ \A j \in 1..(k - 1) : shutdowns[j].pc # "close"
    /\ IF \E q \in Queues : workers[q].close = "rejected"
       THEN /\ exitCode' = Num(1)
            /\ UNCHANGED shutdowns
       ELSE /\ \A q \in Queues : workers[q].close = "resolved"
            /\ shutdowns' = [shutdowns EXCEPT ![k].pc = "quit"]
            /\ UNCHANGED exitCode
    /\ UNCHANGED <<env, workers, pool, connection, importVars, crmVars,
                   webVars, reminderVars>>

\* connection.quit() of call k settles, the commands of the connection being
\* answered in the order they were sent: the connection is released and the
\* process exits with 0, or quit() rejects and the process exits with 1.
ShutdownQuit(k) ==
    /\ Running /\ shutdowns[k].pc = "quit"
    /\ \A j \in 1..(k - 1) : shutdowns[j].pc # "quit"
    /\ \/ /\ connection = "open"
          /\ connection' = "closed"
          /\ exitCode' = Num(0)
       \/ /\ exitCode' = Num(1)
          /\ UNCHANGED connection
    /\ UNCHANGED <<env, workers, pool, shutdowns, importVars, crmVars,
                   webVars, reminderVars>>

ProcInit ==
    /\ env \in [REDIS_URL : EnvValues, DATABASE_URL : EnvValues]
    /\ workers = Empty
    /\ pool = [q \in Queues |-> [waiting |-> 0, active |-> 0]]
    /\ connection = "none"
    /\ shutdowns = <<>>
    /\ exitCode = Null

ProcNext ==
    \/ Startup
    \/ \E q \in Queues : PoolEnqueue(q)
    \/ \E q \in Queues : TakeJob(q)
    \/ \E q \in Queues : Settle(q)
    \/ \E signal \in Signals : Signal(signal)
    \/ \E q \in Queues : WorkerClosed(q)
    \/ \E k \in DOMAIN shutdowns : ShutdownClosed(k)
    \/ \E k \in DOMAIN shutdowns : ShutdownQuit(k)

(***************************************************************************)
(* worker.js: reminderWorker, the processor of appointment-reminders.  The  *)
(* runtime retries a job by the options it was added with; the notification *)
(* is a collaborator that resolves or throws.                               *)
(***************************************************************************)
Appointments == {"a1"}
AppointmentRefs == Appointments \cup {"a0"}
ReminderTypes == {"24h", "1h"}

\* The options an appointment-reminders job is added with.
ReminderJobOptions == [attempts |-> 2, backoff |-> [type |-> "fixed", delay |-> 5000]]

AppointmentNotFound ==
    Str(<<"a","p","p","o","i","n","t","m","e","n","t"," ","n","o","t"," ","f","o","u","n","d">>)
SendFailed == Str(<<"s","e","n","d">>)

enqueueReminder(appointmentId, type) ==
    /\ remNextId <= MaxReminderJobs
    /\ remJobs' = Put(remJobs, remNextId,
                      [id |-> remNextId,
                       data |-> [appointmentId |-> appointmentId, type |-> type],
                       opts |-> ReminderJobOptions, state |-> "waiting",
                       attemptsMade |-> 0, delayedUntil |-> 0,
                       returnvalue |-> Null, failedReason |-> Null])
    /\ remLog' = Put(remLog, remNextId, <<>>)
    /\ remNextId' = remNextId + 1
    /\ UNCHANGED <<appointments, remRun, importVars, crmVars, procVars, webVars>>

\* The worker takes a waiting job and calls the processor.
RemStart(id) ==
    /\ remJobs[id].state = "waiting"
    /\ Cardinality(DOMAIN remRun) < ReminderWorkerOptions.concurrency
    /\ remJobs' = [remJobs EXCEPT ![id].state = "active"]
    /\ remRun' = Put(remRun, id, [pc |-> "find", sent |-> <<>>, error |-> Null,
                                  startedAt |-> now])
    /\ UNCHANGED <<appointments, remNextId, remLog, importVars, crmVars, procVars,
                   webVars>>

\* await prisma.appointment.findUnique(...) and the not-found check
\* (worker.js 124-135).
RemFind(id) ==
    /\ Has(remRun, id) /\ remRun[id].pc = "find"
    /\ \/ /\ remRun' = IF remJobs[id].data.appointmentId \in DOMAIN appointments
                       THEN [remRun EXCEPT ![id].pc = "send"]
                       ELSE [remRun EXCEPT ![id].pc = "catch",
                                           ![id].error = AppointmentNotFound]
          /\ UNCHANGED faults
       \/ /\ faults < MaxFaults
          /\ faults' = faults + 1
          /\ remRun' = [remRun EXCEPT ![id].pc = "catch", ![id].error = StoreFailed]
    /\ UNCHANGED <<appointments, remJobs, remNextId, remLog, importState, now,
                   crmVars, procVars, webVars>>

\* await sendAppointmentReminder(appointment, job.data.type) (worker.js
\* 137-138): the notification is dispatched, or the call throws.
RemSend(id) ==
    /\ Has(remRun, id) /\ remRun[id].pc = "send"
    /\ LET reminder == [appointment |-> remJobs[id].data.appointmentId,
                        type |-> remJobs[id].data.type]
       IN  \/ remRun' = [remRun EXCEPT ![id].pc = "return",
                                       ![id].sent = Append(@, reminder)]
           \/ remRun' = [remRun EXCEPT ![id].pc = "catch", ![id].error = SendFailed]
    /\ UNCHANGED <<appointments, remJobs, remNextId, remLog, importVars, crmVars,
                   procVars, webVars>>

\* An attempt of the job ended; the record of it in the history.
RemAttempt(id, error, backoff) ==
    [startedAt |-> remRun[id].startedAt, endedAt |-> now,
     attemptsMade |-> remJobs[id].attemptsMade, sent |-> remRun[id].sent,
     error |-> error, backoff |-> backoff]

\* await prisma.$disconnect() and the return (worker.js 140-143).
RemReturn(id) ==
    /\ Has(remRun, id) /\ remRun[id].pc = "return"
    /\ \/ /\ remJobs' = [remJobs EXCEPT ![id].state = "completed",
                                        ![id].returnvalue = [success |-> TRUE],
                                        ![id].attemptsMade = @ + 1]
          /\ remLog' = [remLog EXCEPT ![id] = Append(@, RemAttempt(id, Null, Null))]
          /\ remRun' = Drop(remRun, id)
          /\ UNCHANGED faults
       \/ \* prisma.$disconnect() rejects inside the try block
          /\ faults < MaxFaults
          /\ faults' = faults + 1
          /\ remRun' = [remRun EXCEPT ![id].pc = "catch", ![id].error = StoreFailed]
          /\ UNCHANGED <<remJobs, remLog>>
    /\ UNCHANGED <<appointments, remNextId, importState, now, crmVars, procVars,
                   webVars>>

\* One attempt more than the job was added with.
ReminderAttemptsUnbounded(job) == job.opts.attempts + 1

\* The attempts the runtime gives a job: those it was added with.
ReminderAttempts(job) == job.opts.attempts

\* The catch rethrows (worker.js 144-150); the runtime counts the attempt, and
\* delays the job by its backoff when attempts are left, else fails it.
RemCatch(id) ==
    /\ Has(remRun, id) /\ remRun[id].pc = "catch"
    /\ LET job == remJobs[id]
           made == job.attemptsMade + 1
           retry == made < ReminderAttempts(job)
           delay == Backoff(job.opts.backoff, made)
           error == remRun[id].error
       IN  /\ remJobs' = IF retry
                         THEN [remJobs EXCEPT ![id].state = "delayed",
                                              ![id].attemptsMade = made,
                                              ![id].delayedUntil = now + delay]
                         ELSE [remJobs EXCEPT ![id].state = "failed",
                                              ![id].attemptsMade = made,
                                              ![id].failedReason = error]
           /\ remLog' = [remLog EXCEPT ![id] =
                            Append(@, RemAttempt(id, error,
                                                 IF retry THEN Num(delay) ELSE Null))]
           /\ remRun' = Drop(remRun, id)
    /\ UNCHANGED <<appointments, remNextId, importVars, crmVars, procVars, webVars>>

\* The backoff of a delayed job has elapsed: it waits for the worker again.
RemRetry(id) ==
    /\ remJobs[id].state = "delayed"
    /\ now' = IF now < remJobs[id].delayedUntil THEN remJobs[id].delayedUntil ELSE now
    /\ remJobs' = [remJobs EXCEPT ![id].state = "waiting"]
    /\ UNCHANGED <<appointments, remNextId, remRun, remLog, importState, faults,
                   crmVars, procVars, webVars>>

ReminderInit ==
    /\ appointments = [a \in Appointments |-> [id |-> a, updatedAt |-> 0]]
    /\ remJobs = Empty
    /\ remNextId = 1
    /\ remRun = Empty
    /\ remLog = Empty

RemEnqueue ==
    \E appointmentId \in AppointmentRefs, type \in ReminderTypes :
        enqueueReminder(appointmentId, type)

ReminderNext ==
    \/ RemEnqueue
    \/ \E id \in DOMAIN remJobs : RemStart(id)
    \/ \E id \in DOMAIN remRun : RemFind(id)
    \/ \E id \in DOMAIN remRun : RemSend(id)
    \/ \E id \in DOMAIN remRun : RemReturn(id)
    \/ \E id \in DOMAIN remRun : RemCatch(id)
    \/ \E id \in DOMAIN remJobs : RemRetry(id)

(***************************************************************************)
(* upload/page.tsx: POST, the upload handler.  A CSV file is its header     *)
(* and its records, every field a string; parse(..., {columns: true, trim:  *)
(* true}) turns each record into the list of its (column, value) entries    *)
(* in header order.                                                         *)
(***************************************************************************)
REQUIRED_COLUMNS ==
    <<<<"V","I","N">>,
      <<"S","t","o","c","k","#">>,
      <<"Y","e","a","r">>,
      <<"M","a","k","e">>,
      <<"M","o","d","e","l">>,
      <<"T","r","i","m">>,
      <<"C","o","n","d","i","t","i","o","n">>,
      <<"P","r","i","c","e">>,
      <<"M","i","l","e","a","g","e">>,
      <<"C","o","l","o","r">>,
      <<"B","o","d","y","T","y","p","e">>,
      <<"I","m","a","g","e","s">>>>

\* replace(/\s+/g, "")
removeWhiteSpace(s) == SelectSeq(s, LAMBDA c : c \notin WhiteSpace)

normalizeColumn(column) == removeWhiteSpace(toUpperCase(trim(column)))

\* The value of the first entry whose column matches target, trimmed, or null.
rowMatch(row, target) ==
    LET normalizedTarget == normalizeColumn(target)
        found == {n \in 1..Len(row) : normalizeColumn(row[n].key) = normalizedTarget}
    IN  IF found = {} THEN Null ELSE Str(trim(row[SetMin(found)].value))

Digits == <<"0","1","2","3","4","5","6","7","8","9">>
IsDigit(c) == \E d \in 1..Len(Digits) : Digits[d] = c
DigitValue(c) == (CHOOSE d \in 1..Len(Digits) : Digits[d] = c) - 1
RECURSIVE Decimal(_)
Decimal(s) ==
    IF s = <<>> THEN 0
    ELSE 10 * Decimal(SubSeq(s, 1, Len(s) - 1)) + DigitValue(s[Len(s)])

\* Number(v) for v null or a string that is blank, decimal digits, or text
\* that is no number.
Number(v) ==
    IF v = Null THEN Num(0)
    ELSE LET t == trim(v.str)
         IN  IF \A n \in 1..Len(t) : IsDigit(t[n]) THEN Num(Decimal(t)) ELSE NaN

\* Number.isFinite(value) ? value : undefined
FiniteOrUndefined(n) == IF DOMAIN n = {"num"} THEN n ELSE Undefined

\* x ?? undefined
OrUndefined(v) == IF v = Null \/ v = Undefined THEN Undefined ELSE v

RECURSIVE split(_, _)
\* String.prototype.split with a one-character separator
split(s, separator) ==
    LET at == {n \in 1..Len(s) : s[n] = separator}
    IN  IF at = {} THEN <<s>>
        ELSE <<SubSeq(s, 1, SetMin(at) - 1)>>
             \o split(SubSeq(s, SetMin(at) + 1, Len(s)), separator)

\* (rowMatch(row, "Images") ?? "").split(",").map(trim).filter(Boolean)
ImagesOf(row) ==
    LET value == rowMatch(row, <<"I","m","a","g","e","s">>)
        parts == split(IF value = Null THEN <<>> ELSE value.str, ",")
    IN  Arr(SelectSeq([n \in 1..Len(parts) |-> Str(trim(parts[n]))],
                      LAMBDA u : ~Falsy(u)))

\* The row pushed for a record with a VIN (page.tsx 471-484).
UploadedRow(row, vin) ==
    [vin |-> vin,
     stockNumber |-> OrUndefined(rowMatch(row, <<"S","t","o","c","k","#">>)),
     year |-> FiniteOrUndefined(Number(rowMatch(row, <<"Y","e","a","r">>))),
     make |-> OrUndefined(rowMatch(row, <<"M","a","k","e">>)),
     model |-> OrUndefined(rowMatch(row, <<"M","o","d","e","l">>)),
     trim |-> OrUndefined(rowMatch(row, <<"T","r","i","m">>)),
     condition |-> OrUndefined(rowMatch(row, <<"C","o","n","d","i","t","i","o","n">>)),
     price |-> FiniteOrUndefined(Number(rowMatch(row, <<"P","r","i","c","e">>))),
     mileage |-> FiniteOrUndefined(Number(rowMatch(row, <<"M","i","l","e","a","g","e">>))),
     color |-> OrUndefined(rowMatch(row, <<"C","o","l","o","r">>)),
     bodyType |-> OrUndefined(rowMatch(row, <<"B","o","d","y","T","y","p","e">>)),
     images |-> ImagesOf(row)]

\* parse(csvContent, {columns: true, skip_empty_lines: true, trim: true}):
\* it throws when a record has not the length of the header,
ParseThrows(csv) ==
    \E n \in 1..Len(csv.records) : Len(csv.records[n]) # Len(csv.header)

\* and otherwise returns the records as entry lists.
parse(csv) ==
    [n \in 1..Len(csv.records) |->
        [c \in 1..Len(csv.header) |->
            [key |-> trim(csv.header[c]), value |-> trim(csv.records[n][c])]]]

\* The required columns no header column matches (page.tsx 434-437).
missingColumns(rawRecords) ==
    LET headerColumns == {rawRecords[1][c].key : c \in 1..Len(rawRecords[1])}
    IN  SelectSeq(REQUIRED_COLUMNS,
                  LAMBDA column :
                      ~\E header \in headerColumns : normalizeColumn(header) = column)

\* The records without a VIN, as the handler reports them.
Skipped(rawRecords) ==
    LET missing == {n \in 1..Len(rawRecords) :
                       Falsy(rowMatch(rawRecords[n], <<"V","I","N">>))}
    IN  [k \in 1..Cardinality(missing) |->
            [row |-> CHOOSE n \in missing : Cardinality({m \in missing : m < n}) = k - 1,
             reason |-> MissingVIN]]

\* The rows of the records with a VIN, in the order of the records.
UploadedRows(rawRecords) ==
    LET kept == {n \in 1..Len(rawRecords) :
                    ~Falsy(rowMatch(rawRecords[n], <<"V","I","N">>))}
    IN  [k \in 1..Cardinality(kept) |->
            LET n == CHOOSE i \in kept : Cardinality({m \in kept : m < i}) = k - 1
            IN  UploadedRow(rawRecords[n], rowMatch(rawRecords[n], <<"V","I","N">>))]

FormTrue == Str(<<"t","r","u","e">>)
FormFalse == Str(<<"f","a","l","s","e">>)

\* uploadSchema: dealershipId is a uuid, markMissingAsSold (absent: "false")
\* is "true" or "false".
ValidForm(request) ==
    /\ request.dealershipId \in Dealerships
    /\ request.markMissingAsSold \in {Null, FormTrue, FormFalse}

\* The handler up to the call of enqueueInventoryImport: the response that
\* rejects the request, or the job to enqueue.
Handle(request) ==
    IF request.file = Null
    THEN [status |-> 400, message |-> "CSV file is required"]
    ELSE IF ~ValidForm(request)
    THEN [status |-> 400, message |-> "Invalid form submission"]
    ELSE IF ParseThrows(request.file)
    THEN [status |-> 400, message |-> "Unable to parse CSV file"]
    ELSE LET rawRecords == parse(request.file)
         IN  IF Len(rawRecords) = 0
             THEN [status |-> 400, message |-> "CSV file contains no rows"]
             ELSE IF Len(missingColumns(rawRecords)) # 0
             THEN [status |-> 400, message |-> "Missing required columns",
                   columns |-> missingColumns(rawRecords)]
             ELSE IF Len(UploadedRows(rawRecords)) = 0
             THEN [status |-> 400, message |-> "All rows were invalid",
                   skipped |-> Skipped(rawRecords)]
             ELSE [status |-> 200,
                   job |-> [dealershipId |-> request.dealershipId,
                            rows |-> UploadedRows(rawRecords),
                            markMissingAsSold |-> request.markMissingAsSold = FormTrue,
                            totalRows |-> Len(UploadedRows(rawRecords))],
                   skipped |-> Skipped(rawRecords)]

(***************************************************************************)
(* The requests sent to the upload handler: CSV files whose header names    *)
(* the required columns in one style of writing, one of them left out or    *)
(* none, with up to two records.                                            *)
(***************************************************************************)
LowerOf == [c \in {Upper[k] : k \in 1..Len(Upper)} |->
               Lower[CHOOSE k \in 1..Len(Upper) : Upper[k] = c]]
HeaderStyles == {"exact", "upper", "lower", "spaced"}
Styled(style, name) ==
    IF style = "upper" THEN toUpperCase(name)
    ELSE IF style = "lower"
    THEN [n \in 1..Len(name) |->
             IF name[n] \in DOMAIN LowerOf THEN LowerOf[name[n]] ELSE name[n]]
    ELSE IF style = "spaced"
    THEN <<" ", name[1], " ">> \o SubSeq(name, 2, Len(name)) \o <<"\t">>
    ELSE name
\* The value of a record in a column.
ValueIn(column, vin) ==
    IF column = 1 THEN vin
    ELSE IF column = 3 THEN <<"2","0","2","0">>
    ELSE IF column = 7 THEN <<"N","e","w">>
    ELSE IF column = 8 THEN <<"a","b","c">>
    ELSE IF column = 9 THEN <<>>
    ELSE IF column = 12 THEN <<"u",","," ",",","u">>
    ELSE <<"x">>
\* The columns of a header that leaves out column omitted (0: none).
ColumnsWithout(omitted) ==
    SelectSeq([c \in 1..Len(REQUIRED_COLUMNS) |-> c], LAMBDA c : c # omitted)
Csv(style, omitted, vins) ==
    LET columns == ColumnsWithout(omitted)
    IN  [header |-> [n \in 1..Len(columns) |-> Styled(style, REQUIRED_COLUMNS[columns[n]])],
         records |-> [r \in 1..Len(vins) |->
                         [n \in 1..Len(columns) |-> ValueIn(columns[n], vins[r])]]]
VinLists == {<<Vin1FA>>, <<<<" ">>, <<"2","f","b">>>>}
CsvFiles ==
    {Csv(style, omitted, vins) :
        style \in HeaderStyles, omitted \in 0..Len(REQUIRED_COLUMNS), vins \in VinLists}
    \cup {Csv(style, 0, vins) : style \in HeaderStyles, vins \in {<<>>, <<<<>>>>}}
Requests ==
    {[file |-> file, dealershipId |-> "d1", markMissingAsSold |-> Null] : file \in CsvFiles}
    \cup {[file |-> Csv(style, 0, <<Vin1FA>>), dealershipId |-> "d2",
           markMissingAsSold |-> m] : style \in HeaderStyles, m \in {FormTrue, FormFalse}}
    \cup {[file |-> Null, dealershipId |-> "d1", markMissingAsSold |-> Null],
          [file |-> Csv("exact", 0, <<Vin1FA>>), dealershipId |-> "no uuid",
           markMissingAsSold |-> Null],
          [file |-> Csv("exact", 0, <<Vin1FA>>), dealershipId |-> "d1",
           markMissingAsSold |-> Str(<<"y","e","s">>)],
          [file |-> [header |-> <<<<"V","I","N">>>>, records |-> <<<<Vin1FA, Vin2FB>>>>],
           dealershipId |-> "d1", markMissingAsSold |-> Null]}

\* Handle, tabulated over the requests.
Handled == [request \in Requests |-> Handle(request)]

POST(request) ==
    LET out == Handled[request]
    IN  IF out.status = 200
        THEN \/ /\ enqueueInventoryImport(out.job)
                /\ upload' = [request |-> request,
                              response |-> [status |-> 200, jobId |-> nextId,
                                            totalRows |-> out.job.totalRows,
                                            skippedRows |-> out.skipped]]
             \/ \* enqueueInventoryImport rejects
                /\ upload' = [request |-> request,
                              response |-> [status |-> 500,
                                            message |-> "Failed to enqueue"]]
                /\ UNCHANGED <<importVars, crmVars, procVars, reminderVars>>
        ELSE /\ upload' = [request |-> request, response |-> out]
             /\ UNCHANGED <<importVars, crmVars, procVars, reminderVars>>

Upload == \E request \in Requests : POST(request)

(***************************************************************************)
(* Specification of the inventory import: jobs are enqueued one after the   *)
(* other, each after the previous one has finished.                         *)
(***************************************************************************)
ImportInit ==
    /\ catalog = Empty
    /\ now = 0
    /\ jobs = Empty
    /\ nextId = 1
    /\ submitted = 0
    /\ run = Empty
    /\ enqueued = Empty
    /\ before = Empty
    /\ snapshots = Empty
    /\ rejected = {}
    /\ returned = Empty
    /\ faults = 0

\* The batches by the load that is left for them.
BatchesWithin == [n \in 0..MaxLoad |-> Batches(n)]

Enqueue ==
    /\ Idle
    /\ submitted + nextId < MaxLoad
    /\ \E d \in Dealerships, m \in BOOLEAN,
          rows \in BatchesWithin[MaxLoad - submitted - nextId] :
          enqueueInventoryImport(InventoryImportJobData(d, rows, m))
    /\ UNCHANGED <<webVars, reminderVars>>

ImportNext ==
    \/ Enqueue
    \/ \E id \in DOMAIN jobs : StartJob(id)
    \/ \E id \in DOMAIN run : ProcessRow(id)
    \/ \E id \in DOMAIN run : UpdateProgress(id)
    \/ \E id \in DOMAIN run : Reconcile(id)
    \/ \E id \in DOMAIN run : Complete(id)

\* Jobs without reconciliation whose rows name the same vehicle, enqueued
\* while earlier ones may be waiting or running.
OverlappingBatches == {<<RowNew>>, <<RowCertified>>, <<RowCpo>>, <<RowCertified, RowNew>>}

EnqueueOverlapping ==
    /\ \E d \in Dealerships, rows \in OverlappingBatches :
          enqueueInventoryImport(InventoryImportJobData(d, rows, FALSE))
    /\ UNCHANGED <<webVars, reminderVars>>

ConcurrentNext ==
    \/ EnqueueOverlapping
    \/ \E id \in DOMAIN jobs : StartJob(id)
    \/ \E id \in DOMAIN run : ProcessRow(id)
    \/ \E id \in DOMAIN run : UpdateProgress(id)
    \/ \E id \in DOMAIN run : Reconcile(id)
    \/ \E id \in DOMAIN run : Complete(id)

\* A job that stocks one vehicle, then a job of one row of any shape.
EnqueueRow ==
    /\ Idle
    /\ \E d \in Dealerships, m \in BOOLEAN,
          r \in IF nextId = 1 THEN {RowNew, RowCertified}
                ELSE IF nextId = 2 THEN WideRows ELSE {} :
          enqueueInventoryImport(InventoryImportJobData(d, <<r>>, m))
    /\ UNCHANGED <<webVars, reminderVars>>

RowsNext ==
    \/ EnqueueRow
    \/ \E id \in DOMAIN jobs : StartJob(id)
    \/ \E id \in DOMAIN run : ProcessRow(id)
    \/ \E id \in DOMAIN run : UpdateProgress(id)
    \/ \E id \in DOMAIN run : Reconcile(id)
    \/ \E id \in DOMAIN run : Complete(id)

vars == <<importVars, crmVars, procVars, webVars, reminderVars>>

\* The process of the inventory import and of crm-push has started.
ProcStarted ==
    /\ env = [REDIS_URL |-> Str(<<"u">>), DATABASE_URL |-> Str(<<"u">>)]
    /\ workers = [q \in Queues |-> [close |-> "none"]]
    /\ pool = [q \in Queues |-> [waiting |-> 0, active |-> 0]]
    /\ connection = "open"
    /\ shutdowns = <<>>
    /\ exitCode = Null

Init == ImportInit /\ CrmInit /\ ProcStarted /\ ReminderInit /\ upload = Null

Next == ImportNext

Spec == Init /\ [][Next]_vars

SpecRows == Init /\ [][RowsNext]_vars

SpecCrm == Init /\ [][CrmNext]_vars

SpecConcurrent == Init /\ [][ConcurrentNext]_vars

SpecReminder == Init /\ [][ReminderNext]_vars

SpecUpload == Init /\ [][Upload]_vars

\* An entry the import did not write: featured by the dealership (the search
\* ranks featured entries first) and sold.
SeededVehicle(dealershipId) ==
    [vehicleUpsert(Empty, Vin1FA,
                   RowData(RowCertified, dealershipId,
                           toVehicleCondition(RowCertified.condition)), 0)[Vin1FA]
        EXCEPT !.featured = TRUE, !.availability = "SOLD"]

\* The import before its first job, the catalog holding one such entry.
SeededInit ==
    /\ \E d \in Dealerships : catalog = Put(Empty, Vin1FA, SeededVehicle(d))
    /\ now = 1
    /\ jobs = Empty
    /\ nextId = 1
    /\ submitted = 0
    /\ run = Empty
    /\ enqueued = Empty
    /\ before = Empty
    /\ snapshots = Empty
    /\ rejected = {}
    /\ returned = Empty
    /\ faults = 0

SeededBoot == SeededInit /\ CrmInit /\ ProcStarted /\ ReminderInit /\ upload = Null

SpecSeeded == SeededBoot /\ [][ImportNext]_vars

\* The process before its start, the queues of the import and of crm-push empty.
ProcBoot == ImportInit /\ CrmInit /\ ProcInit /\ ReminderInit /\ upload = Null

SpecProc == ProcBoot /\ [][ProcNext]_vars

(***************************************************************************)
(* Properties of the inventory import.                                      *)
(***************************************************************************)
\* No job has started after job id.
Latest(id) == \A j \in DOMAIN before : j <= id
\* Row i of job id was recorded as an error rather than written.
RowFails(id, i) ==
    \/ normalizeVin(enqueued[id].rows[i].vin) = <<>>
    \/ toVehicleCondition(enqueued[id].rows[i].condition) = NoCondition
    \/ <<id, i>> \in rejected
GoodRows(id) == {i \in 1..Len(enqueued[id].rows) : ~RowFails(id, i)}
ErrorsAt(errors, i) == {k \in 1..Len(errors) : errors[k].row = i}
KeyOf(id, i) == normalizeVin(enqueued[id].rows[i].vin)
\* The last row of job id that was written under the key of row i.
LastWrite(id, i) == SetMax({j \in GoodRows(id) : KeyOf(id, j) = KeyOf(id, i)})

\* C1: the result of every completed job has
\* created + updated + errors.length = total.
C1_EveryRowClassifiedOnce ==
    \A id \in DOMAIN returned :
        returned[id].created + returned[id].updated + Len(returned[id].errors)
            = returned[id].total

C1_Witness ==
    \E id \in DOMAIN returned :
        /\ returned[id].created > 0
        /\ returned[id].updated > 0
        /\ Len(returned[id].errors) > 0

\* C2: the k-th progress snapshot of a job has processed = k, the number of
\* rows iterated when it is published, and total = totalRows; at most one
\* snapshot has processed = totalRows, and in a completed job exactly one, the
\* last.
C2_ProgressCountsRows ==
    \A id \in DOMAIN snapshots :
        LET shots == snapshots[id]
            total == enqueued[id].totalRows
            full == {k \in 1..Len(shots) : shots[k].processed = total}
        IN  /\ \A k \in 1..Len(shots) :
                  shots[k] = [processed |-> k, total |-> total]
            /\ Has(run, id) =>
                  Len(shots) = run[id].index
                  /\ run[id].processed =
                        run[id].index + (IF run[id].pc = "progress" THEN 1 ELSE 0)
            /\ Cardinality(full) <= 1
            /\ Has(returned, id) => full = {Len(shots)}

C2_Witness ==
    \E id \in DOMAIN returned :
        Len(snapshots[id]) = 3 /\ snapshots[id][3].processed = 3

\* C3: in a completed job every row was iterated; a row that fails has exactly
\* one entry in errors and every other row none; every row that does not fail
\* is counted as created or updated and, until a later job starts, the entry of
\* its VIN holds the data of the last such row with that VIN.
C3_FailingRowDoesNotAbort ==
    \A id \in DOMAIN returned :
        LET job == enqueued[id]
            r == returned[id]
        IN  /\ r.processed = Len(job.rows)
            /\ \A i \in 1..Len(job.rows) :
                  Cardinality(ErrorsAt(r.errors, i)) = IF RowFails(id, i) THEN 1 ELSE 0
            /\ Len(r.errors) = Len(job.rows) - Cardinality(GoodRows(id))
            /\ r.created + r.updated = Cardinality(GoodRows(id))
            /\ Latest(id) =>
                  \A i \in GoodRows(id) :
                      /\ Has(catalog, KeyOf(id, i))
                      /\ LET raw == job.rows[LastWrite(id, i)]
                             data == RowData(raw, job.dealershipId,
                                             toVehicleCondition(raw.condition))
                         IN  \A f \in DataFields : catalog[KeyOf(id, i)][f] = data[f]

C3_Witness ==
    \E id \in DOMAIN returned :
        /\ Latest(id)
        /\ \E i, j \in 1..Len(enqueued[id].rows) :
              /\ i < j
              /\ <<id, i>> \in rejected
              /\ j \in GoodRows(id)

\* The non-empty normalized VINs of the rows of job id.
BatchVins(id) ==
    {KeyOf(id, i) : i \in 1..Len(enqueued[id].rows)} \ {<<>>}

\* C4: once a job for dealership D with markMissingAsSold = true and at least
\* one VIN seen has completed (and until a later job starts), every entry that
\* was an IN_STOCK entry of D when the job started and whose VIN is not among
\* the batch's normalized VINs is SOLD, every entry a row of the batch wrote is
\* IN_STOCK, and markedSold is the number of entries that are SOLD now and were
\* not when the job started.
C4_MissingMarkedSold ==
    \A id \in DOMAIN returned :
        (enqueued[id].markMissingAsSold /\ BatchVins(id) # {} /\ Latest(id)) =>
            LET D == enqueued[id].dealershipId
                old == before[id]
                missing == {v \in DOMAIN old : /\ old[v].dealershipId = D
                                               /\ old[v].availability = "IN_STOCK"
                                               /\ v \notin BatchVins(id)}
                flipped == {v \in DOMAIN catalog :
                               /\ catalog[v].availability = "SOLD"
                               /\ ~(Has(old, v) /\ old[v].availability = "SOLD")}
            IN  /\ \A v \in missing :
                      Has(catalog, v) /\ catalog[v].availability = "SOLD"
                /\ \A i \in GoodRows(id) :
                      catalog[KeyOf(id, i)].availability = "IN_STOCK"
                /\ flipped = missing
                /\ returned[id].markedSold = Cardinality(flipped)

C4_Witness ==
    \E id \in DOMAIN returned :
        /\ enqueued[id].markMissingAsSold
        /\ Latest(id)
        /\ GoodRows(id) # {}
        /\ returned[id].markedSold = 1
        /\ \E v \in DOMAIN before[id] :
              before[id][v].availability = "IN_STOCK" /\ catalog[v].availability = "SOLD"

\* C5: when two consecutive completed jobs, both with markMissingAsSold =
\* false, each import the same single valid row, its VIN absent from the
\* catalog before the first, and the store rejects neither write, the first
\* result has created = 1, updated = 0, the second updated = 1, created = 0,
\* and the catalog holds one entry for that VIN whose attributes taken from the
\* row are those the first job wrote.
C5_SecondImportUpdates ==
    \A i, j \in DOMAIN returned :
        (/\ j = i + 1
         /\ Latest(j)
         /\ enqueued[i].rows = enqueued[j].rows
         /\ Len(enqueued[i].rows) = 1
         /\ GoodRows(i) = {1} /\ GoodRows(j) = {1}
         /\ ~enqueued[i].markMissingAsSold /\ ~enqueued[j].markMissingAsSold
         /\ ~Has(before[i], KeyOf(i, 1)))
        => LET k == KeyOf(i, 1)
           IN  /\ returned[i].created = 1 /\ returned[i].updated = 0
               /\ returned[j].updated = 1 /\ returned[j].created = 0
               /\ Has(catalog, k)
               /\ Cardinality({v \in DOMAIN catalog : catalog[v].vin = k}) = 1
               /\ \A f \in DOMAIN catalog[k] \ {"updatedAt", "dealershipId"} :
                     catalog[k][f] = before[j][k][f]
               /\ catalog[k].dealershipId = enqueued[j].dealershipId

C5_Witness ==
    /\ Has(returned, 1) /\ Has(returned, 2)
    /\ enqueued[1] = enqueued[2]
    /\ enqueued[1].rows = <<RowNew>>
    /\ ~enqueued[1].markMissingAsSold
    /\ rejected = {}
    /\ returned[2].updated = 1

\* c and d are the same character up to letter case, d not a lower-case letter.
UpperCased(c, d) ==
    /\ \A n \in 1..Len(Lower) : d # Lower[n]
    /\ d = c \/ \E n \in 1..Len(Lower) : c = Lower[n] /\ d = Upper[n]
\* k is s without its surrounding whitespace and with its letters upper-cased.
TrimmedUpperCased(s, k) ==
    /\ k # <<>>
    /\ k[1] \notin WhiteSpace /\ k[Len(k)] \notin WhiteSpace
    /\ \E a \in 0..Len(s) :
          /\ a + Len(k) <= Len(s)
          /\ \A n \in 1..Len(s) :
                IF n <= a \/ n > a + Len(k) THEN s[n] \in WhiteSpace
                ELSE UpperCased(s[n], k[n - a])
\* The VIN of the row is a string with a character that is not whitespace.
NonEmptyVin(raw) ==
    IsString(raw.vin) /\ \E n \in 1..Len(raw.vin.str) : raw.vin.str[n] \notin WhiteSpace
\* The keys of the catalog that are exactly the trimmed, upper-cased text.
KeysFor(cat, text) == {k \in DOMAIN cat : TrimmedUpperCased(text, k)}

\* C6: an iteration of the row loop over a row with a non-empty VIN adds to
\* seenVins exactly the trimmed, upper-cased VIN, and when it writes, it
\* writes the catalog entry under that same value and no other entry; a row
\* without a VIN adds nothing to seenVins and writes nothing.  Every key of
\* the catalog is such a normalized VIN (and the vin of its entry), so rows
\* whose VINs differ only in letter case or surrounding whitespace share one
\* entry.
C6_Step ==
    \A id \in DOMAIN run :
        (run[id].pc = "row" /\ Has(run', id) /\ run'[id].pc = "progress") =>
            LET raw == jobs[id].data.rows[run[id].index + 1]
                added == run'[id].seenVins \ run[id].seenVins
                written == {v \in DOMAIN catalog' :
                               ~Has(catalog, v) \/ catalog'[v] # catalog[v]}
            IN  /\ run[id].seenVins \subseteq run'[id].seenVins
                /\ IF NonEmptyVin(raw)
                   THEN \E k \in run'[id].seenVins :
                           /\ TrimmedUpperCased(raw.vin.str, k)
                           /\ added \subseteq {k}
                           /\ written \subseteq {k}
                   ELSE added = {} /\ written = {}
                /\ \A k \in DOMAIN catalog' :
                      /\ TrimmedUpperCased(k, k)
                      /\ catalog'[k].vin = k

C6_VinNormalizedConsistently == [][C6_Step]_vars

\* Two jobs have each written a row; the VINs of the two rows differ as text
\* and the catalog holds a single entry.
C6_Witness ==
    /\ Has(returned, 1) /\ returned[1].created = 1
    /\ Has(returned, 2) /\ returned[2].updated = 1
    /\ enqueued[1].rows[1].vin # enqueued[2].rows[1].vin
    /\ Cardinality(DOMAIN catalog) = 1

\* The text of the name of a condition.
ConditionName(c) ==
    IF c = "NEW" THEN <<"N","E","W">>
    ELSE IF c = "USED" THEN <<"U","S","E","D">>
    ELSE <<"C","E","R","T","I","F","I","E","D">>
\* The conditions the row's condition stands for: NEW, USED, CERTIFIED when it
\* is that name, or CPO for CERTIFIED, in any letter case and with whitespace
\* around it.
ConditionsOf(raw) ==
    IF ~IsString(raw.condition) THEN {}
    ELSE {c \in VehicleCondition :
             \/ TrimmedUpperCased(raw.condition.str, ConditionName(c))
             \/ /\ c = "CERTIFIED"
                /\ TrimmedUpperCased(raw.condition.str, <<"C","P","O">>)}

\* C7: an iteration of the row loop over a row with a VIN whose condition is
\* NEW, USED, CERTIFIED or CPO in any letter case, whitespace around it
\* ignored, writes the entry with condition NEW, USED, CERTIFIED, CERTIFIED
\* respectively unless the store rejects the write; over a row with any other
\* or no condition, it appends one error for the row (naming the condition
\* when the row has a VIN) and leaves the catalog as it is.
C7_Step ==
    \A id \in DOMAIN run :
        (run[id].pc = "row" /\ Has(run', id) /\ run'[id].pc = "progress") =>
            LET index == run[id].index
                raw == jobs[id].data.rows[index + 1]
                errors == run'[id].errors
            IN  IF ConditionsOf(raw) # {}
                THEN (NonEmptyVin(raw) /\ <<id, index + 1>> \notin rejected') =>
                        /\ errors = run[id].errors
                        /\ \E k \in KeysFor(catalog', raw.vin.str) :
                              /\ {catalog'[k].condition} = ConditionsOf(raw)
                              /\ catalog'[k].updatedAt = now'
                ELSE /\ Len(errors) = Len(run[id].errors) + 1
                     /\ SubSeq(errors, 1, Len(run[id].errors)) = run[id].errors
                     /\ errors[Len(errors)].row = index + 1
                     /\ NonEmptyVin(raw) =>
                           errors[Len(errors)].error = InvalidCondition(raw.condition)
                     /\ catalog' = catalog

C7_ConditionMapped == [][C7_Step]_vars

\* A job imported a row with condition " cPo " and a VIN: the entry is
\* CERTIFIED.
C7_Witness ==
    /\ Has(returned, 2)
    /\ enqueued[2].rows[1].condition = Str(<<" ","c","P","o"," ">>)
    /\ returned[2].created + returned[2].updated = 1
    /\ \E k \in DOMAIN catalog :
          catalog[k].condition = "CERTIFIED" /\ catalog[k].updatedAt = now

\* C8: a completed job of the rows {vin: "1FA", condition: "New", price:
\* 25000}, {vin: "", condition: "Used"}, {vin: "2FB", condition: "bogus"} with
\* markMissingAsSold = false, neither VIN in the catalog when it started and
\* no write rejected by the store, returned processed = 3, total = 3,
\* created = 1, updated = 0, errors = [{row 2, "Missing VIN"}, {row 3,
\* 'Invalid condition "bogus"'}], markedSold = 0.
C8_EndToEndExample ==
    \A id \in DOMAIN returned :
        (/\ enqueued[id].rows = <<RowNew, RowEmptyVin, RowBogus>>
         /\ ~enqueued[id].markMissingAsSold
         /\ ~Has(before[id], Vin1FA) /\ ~Has(before[id], Vin2FB)
         /\ \A i \in 1..3 : <<id, i>> \notin rejected)
        => returned[id] =
              [processed |-> 3, total |-> 3, created |-> 1, updated |-> 0,
               errors |-> <<[row |-> 2,
                             error |-> <<"M","i","s","s","i","n","g"," ","V","I","N">>],
                            [row |-> 3,
                             error |-> <<"I","n","v","a","l","i","d"," ",
                                         "c","o","n","d","i","t","i","o","n"," ",
                                         "\"","b","o","g","u","s","\"">>]>>,
               markedSold |-> 0]

C8_Witness ==
    \E id \in DOMAIN returned :
        /\ enqueued[id].rows = <<RowNew, RowEmptyVin, RowBogus>>
        /\ ~enqueued[id].markMissingAsSold
        /\ \A i \in 1..3 : <<id, i>> \notin rejected
        /\ Len(returned[id].errors) = 2

\* C9 (as claimed): every job that has completed is found by the poll route,
\* which reports state completed and the Import Result the processor returned.
C9_CompletedJobStaysPollable ==
    \A id \in DOMAIN returned :
        /\ GET(id).status = 200
        /\ GET(id).body.state = "completed"
        /\ GET(id).body.result = returned[id]

(***************************************************************************)
(* Properties of the crm-push consumer.                                     *)
(***************************************************************************)
\* The external push failed in every attempt of the job that has ended.
PushAlwaysFailed(id) ==
    \A k \in 1..Len(crmLog[id]) : crmLog[id][k].push = "failed"

\* C10: a crm-push job whose push failed in every attempt so far has had at
\* most 3 attempts, is failed exactly when it has had 3, and is never
\* completed; its first attempt is followed by a backoff of 2000 ms and its
\* second by one of 4000 ms, no backoff follows the third, and the next
\* attempt starts no earlier than the backoff after the end of the one before.
C10_PushRetriedThreeTimes ==
    \A id \in DOMAIN crmLog :
        PushAlwaysFailed(id) =>
            LET log == crmLog[id]
            IN  /\ Len(log) <= 3
                /\ crmJobs[id].state = "failed" <=> Len(log) = 3
                /\ crmJobs[id].state # "completed"
                /\ \A k \in 1..Len(log) :
                      /\ log[k].backoff =
                            IF k = 1 THEN Num(2000)
                            ELSE IF k = 2 THEN Num(4000) ELSE Null
                      /\ k > 1 =>
                            log[k].startedAt >= log[k - 1].endedAt + log[k - 1].backoff.num
                /\ (Has(crmRun, id) /\ Len(log) > 0) =>
                      crmRun[id].startedAt >= log[Len(log)].endedAt + log[Len(log)].backoff.num

C10_Witness ==
    \E id \in DOMAIN crmLog :
        /\ PushAlwaysFailed(id)
        /\ Len(crmLog[id]) = 3
        /\ crmJobs[id].state = "failed"
        /\ crmLog[id][3].startedAt = 6000

\* C11 (as claimed): once a crm-push job is failed, the flag pushedToCRM of
\* its lead is false, whatever it was before the final attempt.
C11_FailedJobClearsFlag ==
    \A id \in DOMAIN crmJobs :
        (crmJobs[id].state = "failed" /\ crmJobs[id].data.leadId \in DOMAIN leads) =>
            ~leads[crmJobs[id].data.leadId].pushedToCRM

\* C12: an inventory-import job is started only when it has never been
\* started before; an execution that ends without returning leaves the job
\* failed with one attempt made, and a failed job is never changed again.  No
\* execution of a job follows its first, so none writes its rows again.
C12_Step ==
    /\ \A id \in DOMAIN run' \ DOMAIN run :
          ~Has(before, id) /\ jobs[id].attemptsMade = 0
    /\ \A id \in DOMAIN run \ DOMAIN run' :
          ~Has(returned', id) =>
              /\ Has(jobs', id)
              /\ jobs'[id].state = "failed"
              /\ jobs'[id].attemptsMade = 1
    /\ \A id \in DOMAIN jobs :
          jobs[id].state = "failed" => Has(jobs', id) /\ jobs'[id] = jobs[id]

C12_ExecutedAtMostOnce == [][C12_Step]_vars

\* A job failed after it had written a row, and a later job has been enqueued.
C12_Witness ==
    \E id \in DOMAIN jobs :
        /\ jobs[id].state = "failed"
        /\ DOMAIN catalog # DOMAIN before[id]
        /\ \E later \in DOMAIN jobs : later > id

(***************************************************************************)
(* Properties of the worker process.                                        *)
(***************************************************************************)
\* C13: at most 5 jobs of crm-push, at most 10 of appointment-reminders and
\* at most 2 of inventory-import are running in the process at any time.
C13_ConcurrencyBounded ==
    /\ pool["crm-push"].active <= 5
    /\ pool["appointment-reminders"].active <= 10
    /\ pool["inventory-import"].active <= 2

\* Every queue runs as many jobs as its limit allows while a job waits in it.
C13_Witness ==
    /\ pool["crm-push"].active = 5
    /\ pool["appointment-reminders"].active = 10
    /\ pool["inventory-import"].active = 2
    /\ \A q \in Queues : pool[q].waiting > 0

\* C14: once a termination signal has arrived no consumer takes a job; when
\* the connection is released, close() of every consumer has resolved and no
\* job is running; the process exits with 0 only together with or after the
\* release of the connection; and when a close() has rejected, or the
\* process exits during the shutdown without the connection released, the
\* exit status is not 0.
C14_Step ==
    /\ shutdowns # <<>> =>
          \A q \in Queues : pool'[q].active <= pool[q].active
    /\ connection' = "closed" =>
          \A q \in Queues : pool'[q].active = 0 /\ workers'[q].close = "resolved"
    /\ exitCode' = Num(0) => connection' = "closed"
    /\ (exitCode' # Null /\ \E q \in DOMAIN workers' : workers'[q].close = "rejected")
          => exitCode' = Num(1)
    /\ (exitCode = Null /\ exitCode' # Null /\ connection' = "open")
          => exitCode' = Num(1)

C14_ShutdownOrder == [][C14_Step]_vars

\* The process has exited with 0 after a signal, leaving a job waiting.
C14_Witness ==
    /\ exitCode = Num(0)
    /\ shutdowns # <<>>
    /\ connection = "closed"
    /\ \E q \in Queues : pool[q].waiting > 0

\* C15: when REDIS_URL or DATABASE_URL is unset (or empty), the process
\* registers no consumer, opens no connection and runs no job, and once it
\* has run its startup it has exited with status 1.
C15_FailFastStartup ==
    (Falsy(env.REDIS_URL) \/ Falsy(env.DATABASE_URL)) =>
        /\ workers = Empty
        /\ connection = "none"
        /\ \A q \in Queues : pool[q].active = 0
        /\ exitCode \in {Null, Num(1)}
        /\ exitCode = Null => ENABLED Startup

\* DATABASE_URL alone is unset; the process has exited while a job waits.
C15_Witness ==
    /\ env.DATABASE_URL = Undefined
    /\ ~Falsy(env.REDIS_URL)
    /\ exitCode = Num(1)
    /\ \E q \in Queues : pool[q].waiting > 0

\* The fields in which entries a and b differ.
Differ(a, b) == {f \in DOMAIN a \cup DOMAIN b :
                    f \notin DOMAIN a \/ f \notin DOMAIN b \/ a[f] # b[f]}

\* C16: no step of an import removes a catalog entry, and a step changes an
\* existing entry only in one of two ways: a row's upsert overwrites the
\* attributes taken from the row (and updatedAt), leaving vin, featured and
\* createdAt; or the reconciliation turns availability from IN_STOCK to SOLD
\* (and stamps updatedAt), leaving everything else.
C16_Step ==
    /\ DOMAIN catalog \subseteq DOMAIN catalog'
    /\ \A v \in DOMAIN catalog :
          catalog'[v] # catalog[v] =>
              \/ /\ \E id \in DOMAIN run : run[id].pc = "row"
                 /\ Differ(catalog[v], catalog'[v]) \subseteq DataFields \cup {"updatedAt"}
                 /\ catalog'[v].availability = "IN_STOCK"
              \/ /\ \E id \in DOMAIN run : run[id].pc = "reconcile"
                 /\ Differ(catalog[v], catalog'[v]) \subseteq {"availability", "updatedAt"}
                 /\ catalog[v].availability = "IN_STOCK"
                 /\ catalog'[v].availability = "SOLD"

C16_NeverDeleted == [][C16_Step]_vars

\* An entry has been marked SOLD and is still in the catalog, next to the
\* entry the job wrote.
C16_Witness ==
    /\ \E v \in DOMAIN catalog : catalog[v].availability = "SOLD"
    /\ \E v \in DOMAIN catalog : catalog[v].availability = "IN_STOCK"

(***************************************************************************)
(* Properties of the upload handler.                                        *)
(***************************************************************************)
\* The header of the file names column up to letter case and whitespace.
Names(file, column) ==
    \E n \in 1..Len(file.header) :
        TrimmedUpperCased(removeWhiteSpace(file.header[n]), toUpperCase(column))

\* C17 (as claimed): a valid upload of a CSV file whose header names all
\* twelve required columns, in any letter case and with any whitespace, and
\* that has a record with a VIN is not rejected, and unless the queue refused
\* the job it is answered with the id of the inventory-import job it enqueued.
C17_HeaderMatchedInsensitively ==
    (/\ upload # Null
     /\ upload.request.file # Null
     /\ ValidForm(upload.request)
     /\ \A c \in 1..Len(REQUIRED_COLUMNS) : Names(upload.request.file, REQUIRED_COLUMNS[c])
     /\ \E r \in 1..Len(upload.request.file.records) :
           \E n \in 1..Len(upload.request.file.records[r][1]) :
               upload.request.file.records[r][1][n] \notin WhiteSpace)
    => /\ upload.response.status # 400
       /\ upload.response.status = 200 =>
              /\ Has(jobs, upload.response.jobId)
              /\ jobs[upload.response.jobId].data.dealershipId = upload.request.dealershipId
              /\ jobs[upload.response.jobId].data.totalRows = upload.response.totalRows

(***************************************************************************)
(* Rows that fail validation, and the reconciliation.                       *)
(***************************************************************************)
\* The rows of job id with a non-empty VIN and an invalid condition.
InvalidConditionRows(id) ==
    {i \in 1..Len(enqueued[id].rows) :
        /\ KeyOf(id, i) # <<>>
        /\ toVehicleCondition(enqueued[id].rows[i].condition) = NoCondition}

\* C18: when a job with markMissingAsSold = true passes its reconciliation,
\* the normalized VIN of every row with a non-empty VIN and an invalid
\* condition is in seenVins, and an IN_STOCK entry of the dealership with that
\* VIN is still IN_STOCK after the reconciliation.
C18_Step ==
    \A id \in DOMAIN run :
        (/\ run[id].pc = "reconcile"
         /\ Has(run', id) /\ run'[id].pc = "return"
         /\ enqueued[id].markMissingAsSold) =>
            \A i \in InvalidConditionRows(id) :
                LET v == KeyOf(id, i)
                IN  /\ v \in run[id].seenVins
                    /\ (/\ Has(catalog, v)
                        /\ catalog[v].dealershipId = enqueued[id].dealershipId
                        /\ catalog[v].availability = "IN_STOCK") =>
                           /\ Has(catalog', v)
                           /\ catalog'[v].availability = "IN_STOCK"
                           /\ run'[id].markedSold =
                                 Cardinality({k \in DOMAIN catalog :
                                     /\ catalog[k].availability = "IN_STOCK"
                                     /\ catalog'[k].availability = "SOLD"})

C18_InvalidRowExcludedFromReconciliation == [][C18_Step]_vars

\* A completed job with markMissingAsSold = true whose only row with the VIN
\* of an IN_STOCK entry of its dealership had an invalid condition: no write
\* for the row, and the entry is IN_STOCK.
C18_Witness ==
    \E id \in DOMAIN returned :
        /\ enqueued[id].markMissingAsSold
        /\ Latest(id)
        /\ \E i \in InvalidConditionRows(id) :
              LET v == KeyOf(id, i)
              IN  /\ \A j \in GoodRows(id) : KeyOf(id, j) # v
                  /\ Has(before[id], v)
                  /\ before[id][v].dealershipId = enqueued[id].dealershipId
                  /\ before[id][v].availability = "IN_STOCK"
                  /\ catalog[v] = before[id][v]
                  /\ returned[id].markedSold = 0
                  /\ Len(returned[id].errors) > 0

\* C19: the iteration of the row loop for a row whose VIN is missing, not a
\* string, or empty after trimming appends the error "Missing VIN" for the
\* row, leaves seenVins and the catalog as they were and counts the row in
\* processed; and the progress then published counts the row.
C19_Step ==
    \A id \in DOMAIN run :
        (Has(run', id) /\ run[id].pc \in {"row", "progress"}) =>
            LET raw == jobs[id].data.rows[run[id].index + 1]
                published == snapshots'[id][Len(snapshots'[id])]
            IN  ~NonEmptyVin(raw) =>
                   /\ (run[id].pc = "row" /\ run'[id].pc # "row") =>
                         /\ run'[id].errors =
                               Append(run[id].errors,
                                      [row |-> run[id].index + 1, error |-> MissingVIN])
                         /\ run'[id].seenVins = run[id].seenVins
                         /\ catalog' = catalog
                         /\ run'[id].processed = run[id].processed + 1
                         /\ run'[id].pc = "progress"
                   /\ (run[id].pc = "progress" /\ run'[id].pc # "progress") =>
                         /\ Len(snapshots'[id]) = Len(snapshots[id]) + 1
                         /\ published.processed = run[id].index + 1
                         /\ published.total = Len(jobs[id].data.rows)
                         /\ jobs'[id].progress = [obj |-> published]

C19_MissingVinRecorded == [][C19_Step]_vars

\* A job whose row had no VIN (absent, null, a number, or blank) has
\* completed with the error recorded and the row counted.
C19_Witness ==
    \E id \in DOMAIN returned :
        LET raw == enqueued[id].rows[1]
        IN  /\ raw.vin \in {Undefined, Null, Num(7), Str(<<" ","\t">>)}
            /\ returned[id].errors = <<[row |-> 1, error |-> MissingVIN]>>
            /\ returned[id].processed = 1
            /\ snapshots[id] = <<[processed |-> 1, total |-> 1]>>
            /\ catalog = before[id]

\* The entries that are SOLD in cat and were not SOLD in old.
FlippedToSold(old, cat) ==
    {v \in DOMAIN cat : /\ cat[v].availability = "SOLD"
                        /\ ~(Has(old, v) /\ old[v].availability = "SOLD")}

\* C20: a completed job with markMissingAsSold = false, or none of whose rows
\* had a non-empty VIN, returned markedSold = 0, and (until a later job
\* starts) no entry is SOLD that was not SOLD when the job started.
C20_NoReconciliationWithoutFlagOrVins ==
    \A id \in DOMAIN returned :
        (~enqueued[id].markMissingAsSold \/ BatchVins(id) = {}) =>
            /\ returned[id].markedSold = 0
            /\ Latest(id) => FlippedToSold(before[id], catalog) = {}

\* Both cases have happened: a job with the flag false completed with a VIN
\* seen, and the latest job, with the flag true and no VIN in its rows,
\* completed while its dealership had an IN_STOCK entry.
C20_Witness ==
    \E id, first \in DOMAIN returned :
        /\ ~enqueued[first].markMissingAsSold /\ BatchVins(first) # {}
        /\ enqueued[id].markMissingAsSold /\ BatchVins(id) = {}
        /\ Latest(id)
        /\ \E v \in DOMAIN before[id] :
              /\ before[id][v].dealershipId = enqueued[id].dealershipId
              /\ before[id][v].availability = "IN_STOCK"
              /\ catalog[v].availability = "IN_STOCK"

\* C21: an iteration of the row loop whose upsert succeeded leaves the entry
\* of the row's normalized VIN with availability IN_STOCK, whatever it was
\* before; the entry has featured = false when the upsert created it and the
\* featured value it had when the upsert overwrote it.
C21_Step ==
    \A id \in DOMAIN run :
        (/\ run[id].pc = "row"
         /\ Has(run', id) /\ run'[id].pc = "progress"
         /\ run'[id].errors = run[id].errors) =>
            LET v == normalizeVin(jobs[id].data.rows[run[id].index + 1].vin)
            IN  /\ Has(catalog', v)
                /\ catalog'[v].availability = "IN_STOCK"
                /\ catalog'[v].featured = IF Has(catalog, v) THEN catalog[v].featured
                                          ELSE FALSE

C21_UpsertRestocksAndKeepsFeatured == [][C21_Step]_vars

\* The featured, sold entry has been overwritten by a row and is in stock
\* and featured, and another entry was created not featured.
C21_Witness ==
    /\ Has(catalog, Vin1FA)
    /\ catalog[Vin1FA].featured
    /\ catalog[Vin1FA].availability = "IN_STOCK"
    /\ catalog[Vin1FA].updatedAt > catalog[Vin1FA].createdAt
    /\ \E v \in DOMAIN catalog : ~catalog[v].featured /\ catalog[v].createdAt > 0

(***************************************************************************)
(* Order of the rows.                                                       *)
(***************************************************************************)
\* The row numbers of errors increase strictly.
StrictlyIncreasingRows(errors) ==
    \A k \in 1..Len(errors) - 1 : errors[k].row < errors[k + 1].row

\* error is an error the row at position i of job id can have.
ErrorOfRow(id, i, error) ==
    LET raw == enqueued[id].rows[i]
    IN  IF KeyOf(id, i) = <<>> THEN error = MissingVIN
        ELSE IF toVehicleCondition(raw.condition) = NoCondition
        THEN error = InvalidCondition(raw.condition)
        ELSE error \in StoreErrors \cup {UnknownError}

\* C22: a job advances by one row at a time, in the order submitted: the
\* n-th iteration handles the row at position n, either writing that row's
\* data under that row's VIN or appending an error with row = n that is an
\* error of that row; so the errors, also those returned, have strictly
\* increasing row numbers, each the position of a failing row.
C22_Step ==
    /\ \A id \in DOMAIN run :
          Has(run', id) =>
             LET n == run[id].index + 1
                 job == enqueued[id]
             IN  /\ run'[id].index \in {run[id].index, n}
                 /\ run'[id].processed \in {run[id].processed, run[id].processed + 1}
                 /\ run[id].pc # "row" => run'[id].errors = run[id].errors
                 /\ (run[id].pc = "row" /\ run'[id].pc # "row") =>
                       /\ run'[id].processed = n
                       /\ \/ /\ run'[id].errors = run[id].errors
                             /\ LET raw == job.rows[n]
                                    data == RowData(raw, job.dealershipId,
                                                    toVehicleCondition(raw.condition))
                                IN  /\ Has(catalog', KeyOf(id, n))
                                    /\ \A f \in DataFields :
                                          catalog'[KeyOf(id, n)][f] = data[f]
                          \/ /\ Len(run'[id].errors) = Len(run[id].errors) + 1
                             /\ SubSeq(run'[id].errors, 1, Len(run[id].errors)) = run[id].errors
                             /\ run'[id].errors[Len(run'[id].errors)].row = n
                             /\ ErrorOfRow(id, n, run'[id].errors[Len(run'[id].errors)].error)
                             /\ catalog' = catalog
                 /\ StrictlyIncreasingRows(run'[id].errors)
    /\ \A id \in DOMAIN returned' :
          /\ StrictlyIncreasingRows(returned'[id].errors)
          /\ \A k \in 1..Len(returned'[id].errors) :
                LET e == returned'[id].errors[k]
                IN  /\ e.row \in 1..Len(enqueued[id].rows)
                    /\ ErrorOfRow(id, e.row, e.error)

C22_RowsInSubmittedOrder == [][C22_Step]_vars

\* A job returned two errors, for rows 1 and 3, with a row written between.
C22_Witness ==
    \E id \in DOMAIN returned :
        /\ Len(returned[id].errors) = 2
        /\ returned[id].errors[1].row = 1
        /\ returned[id].errors[2].row = 3
        /\ returned[id].errors[1].error # returned[id].errors[2].error
        /\ returned[id].created = 1

(***************************************************************************)
(* Row-level and job-level failures of the import.                          *)
(***************************************************************************)
\* The job has ended as failed.
Failed(id) == Has(jobs, id) /\ jobs[id].state = "failed"

\* What holds of every step, whichever calls are job-level: an iteration of
\* the row loop, failing or not, keeps the job running and goes on to
\* publish progress, and a job leaves the processor only with its result,
\* all rows iterated, or as failed.
RowFailuresStayInJob ==
    \A id \in DOMAIN run :
        /\ run[id].pc = "row" =>
              /\ Has(run', id) /\ run'[id].pc = "progress"
              /\ jobs'[id] = jobs[id]
        /\ ~Has(run', id) =>
              \/ /\ Has(returned', id)
                 /\ returned'[id].processed = Len(enqueued[id].rows)
                 /\ returned'[id].total = enqueued[id].totalRows
                 /\ ~Has(jobs', id) \/ jobs'[id].state = "completed"
              \/ /\ ~Has(returned', id)
                 /\ Has(jobs', id) /\ jobs'[id].state = "failed"

\* C23 (as claimed): row-level failures never fail a job, and a job is failed
\* only by the failure of publishing progress or of the bulk update of the
\* reconciliation.
C23_Step ==
    /\ RowFailuresStayInJob
    /\ \A id \in DOMAIN jobs' :
          jobs'[id].state = "failed" =>
             jobs'[id].failedReason \in {Str(ProgressFailed), Str(ReconcileFailed)}

C23_FailedOnlyByProgressOrReconcile == [][C23_Step]_vars

\* C23 (amended): row-level failures never fail a job, and a job is failed
\* only by the failure of a job-level call: publishing progress, the bulk
\* update of the reconciliation, or the disconnect of the finally block.
C23_AmendedStep ==
    /\ RowFailuresStayInJob
    /\ \A id \in DOMAIN jobs' :
          jobs'[id].state = "failed" =>
             jobs'[id].failedReason \in
                {Str(ProgressFailed), Str(ReconcileFailed), Str(DisconnectFailed)}

C23_FailedOnlyByJobLevelCall == [][C23_AmendedStep]_vars

\* A job whose rows failed (one for its VIN, one rejected by the store or
\* for its condition) has completed, and a job has failed by the disconnect
\* after all its rows were iterated.
C23_Witness ==
    /\ \E id \in DOMAIN returned : Len(returned[id].errors) > 0
    /\ \E id \in DOMAIN jobs :
          /\ Failed(id)
          /\ jobs[id].failedReason = Str(DisconnectFailed)
          /\ Len(snapshots[id]) = enqueued[id].totalRows

(***************************************************************************)
(* The success path of crm-push.                                            *)
(***************************************************************************)
\* C24: the step that completes a crm-push job is taken by an attempt that
\* found the lead, whose external push succeeded, and after which the lead
\* has pushedToCRM = true, stamped within the attempt; the external push is
\* invoked only for a lead that exists, and an attempt for a lead that does
\* not exist ends as failed with no push.
C24_Step ==
    \A id \in DOMAIN crmJobs :
        LET lead == crmJobs[id].data.leadId
        IN  /\ (crmJobs[id].state # "completed" /\ crmJobs'[id].state = "completed") =>
                  /\ lead \in DOMAIN leads
                  /\ Has(crmRun, id) /\ crmRun[id].push = "ok"
                  /\ leads'[lead].pushedToCRM
                  /\ leads'[lead].updatedAt >= crmRun[id].startedAt
                  /\ crmLog'[id][Len(crmLog'[id])].push = "ok"
                  /\ crmLog'[id][Len(crmLog'[id])].error = Null
            /\ (Has(crmRun', id) /\ crmRun'[id].push # "none") => lead \in DOMAIN leads
            /\ lead \notin DOMAIN leads =>
                  /\ crmJobs'[id].state # "completed"
                  /\ \A k \in 1..Len(crmLog'[id]) :
                        /\ crmLog'[id][k].push = "none"
                        /\ crmLog'[id][k].error \in {LeadNotFound, StoreFailed}

C24_CompletedOnlyAfterPushAndFlag == [][C24_Step]_vars

\* A job for an existing lead has completed, its lead flagged.
C24_Witness ==
    \E id \in DOMAIN crmJobs :
        /\ crmJobs[id].state = "completed"
        /\ leads[crmJobs[id].data.leadId].pushedToCRM
        /\ crmLog[id][Len(crmLog[id])].push = "ok"

\* A job for a lead that does not exist has failed, each attempt not found.
C24_WitnessNotFound ==
    \E id \in DOMAIN crmJobs :
        /\ crmJobs[id].data.leadId \notin DOMAIN leads
        /\ crmJobs[id].state = "failed"
        /\ \A k \in 1..Len(crmLog[id]) : crmLog[id][k].error = LeadNotFound

(***************************************************************************)
(* Appointment reminders.                                                   *)
(***************************************************************************)
\* C25: an appointment-reminders job has at most 2 attempts; a failed first
\* attempt is followed by a backoff of 5000 ms before the second starts, the
\* second by none, and the job is failed exactly when both failed; no step
\* of the reminder worker changes the data store; and no attempt for an
\* appointment that is not in the store dispatches a reminder.
C25_Step ==
    /\ appointments' = appointments /\ leads' = leads /\ catalog' = catalog
    /\ \A id \in DOMAIN remJobs' :
          LET log == remLog'[id]
              job == remJobs'[id]
          IN  /\ Len(log) <= 2
              /\ job.attemptsMade = Len(log)
              /\ \A k \in 1..Len(log) :
                    /\ log[k].backoff = IF k = 1 /\ log[k].error # Null
                                        THEN Num(5000) ELSE Null
                    /\ k > 1 => /\ log[k - 1].error # Null
                                /\ log[k].startedAt >= log[k - 1].endedAt + 5000
              /\ job.state = "failed" <=> (Len(log) = 2 /\ log[2].error # Null)
              /\ job.state = "completed" <=> (Len(log) > 0 /\ log[Len(log)].error = Null)
              /\ Has(remRun', id) =>
                    /\ Len(log) < 2
                    /\ Len(log) = 1 =>
                          remRun'[id].startedAt >= log[1].endedAt + 5000
              /\ job.data.appointmentId \notin DOMAIN appointments =>
                    /\ \A k \in 1..Len(log) : log[k].sent = <<>>
                    /\ Has(remRun', id) => remRun'[id].sent = <<>>

C25_ReminderRetriedOnceNoWrites == [][C25_Step]_vars

\* A job for an appointment in the store has failed after two attempts whose
\* send threw, the second started 5000 ms after the first ended.
C25_Witness ==
    \E id \in DOMAIN remJobs :
        /\ remJobs[id].state = "failed"
        /\ remJobs[id].failedReason = SendFailed
        /\ Len(remLog[id]) = 2
        /\ remLog[id][1].backoff = Num(5000)
        /\ remLog[id][2].startedAt = remLog[id][1].endedAt + 5000

\* A job for an appointment that is not in the store has failed after two
\* attempts, neither of which dispatched a reminder.
C25_WitnessNotFound ==
    \E id \in DOMAIN remJobs :
        /\ remJobs[id].state = "failed"
        /\ remJobs[id].data.appointmentId \notin DOMAIN appointments
        /\ Len(remLog[id]) = 2
        /\ remLog[id][2].error = AppointmentNotFound

(***************************************************************************)
(* Concurrent imports.                                                      *)
(***************************************************************************)
\* The entry is what one upsert of row i of job id leaves: the row's VIN and
\* every field of the row's data.
EntryOfRow(entry, id, i) ==
    LET raw == enqueued[id].rows[i]
        data == RowData(raw, enqueued[id].dealershipId, toVehicleCondition(raw.condition))
    IN  /\ entry.vin = KeyOf(id, i)
        /\ \A f \in DataFields : entry[f] = data[f]

\* C26: with import jobs running concurrently and no reconciliation, the
\* catalog changes only by the upsert of a row, which leaves, under the
\* row's normalized VIN alone, an entry whose fields are all that row's and
\* leaves every other entry as it was; so every entry is at all times the
\* data of one single row, the one whose upsert was applied last under its
\* VIN, and a VIN has one entry.
C26_Step ==
    /\ \A v \in DOMAIN catalog' : catalog'[v].vin = v
    /\ catalog' # catalog =>
          \E id \in DOMAIN run :
              LET n == run[id].index + 1
                  v == KeyOf(id, n)
              IN  /\ run[id].pc = "row"
                  /\ run'[id].pc = "progress"
                  /\ run'[id].errors = run[id].errors
                  /\ DOMAIN catalog' = DOMAIN catalog \cup {v}
                  /\ EntryOfRow(catalog'[v], id, n)
                  /\ \A w \in DOMAIN catalog : w # v => catalog'[w] = catalog[w]

C26_ConcurrentUpsertsLastWriteWins == [][C26_Step]_vars

\* Two jobs are running at once, both have upserted rows that differ under
\* the same VIN, and the entry is the whole of the second job's row.
C26_Witness ==
    \E a, b \in DOMAIN run :
        /\ a < b
        /\ run[a].pc = "progress" /\ run[b].pc = "progress"
        /\ run[a].errors = <<>> /\ run[b].errors = <<>>
        /\ KeyOf(a, run[a].index + 1) = KeyOf(b, run[b].index + 1)
        /\ EntryOfRow(catalog[KeyOf(a, run[a].index + 1)], b, run[b].index + 1)
        /\ ~EntryOfRow(catalog[KeyOf(a, run[a].index + 1)], a, run[a].index + 1)

(***************************************************************************)
(* The created/updated counters.                                            *)
(***************************************************************************)
\* The rows of job id whose upsert inserted an entry: written rows whose VIN
\* had no entry when the job started and no earlier written row in the batch.
InsertingRows(id) ==
    {i \in GoodRows(id) :
        /\ ~Has(before[id], KeyOf(id, i))
        /\ \A j \in GoodRows(id) : j < i => KeyOf(id, j) # KeyOf(id, i)}

\* C27 (as claimed): in the result of a job, created is the number of rows
\* whose upsert inserted an entry that did not exist and updated the number
\* of rows whose upsert overwrote an existing entry, whatever the timestamps
\* of the writes.
C27_CountersMatchWrites ==
    \A id \in DOMAIN returned :
        /\ returned[id].created = Cardinality(InsertingRows(id))
        /\ returned[id].updated = Cardinality(GoodRows(id) \ InsertingRows(id))

(***************************************************************************)
(* Entries of other dealerships.                                            *)
(***************************************************************************)
\* C28 (as claimed): when a job for dealership D has completed (and until a
\* later job starts), every entry that belonged to another dealership when
\* the job started is as it was then.
C28_OtherDealershipsUntouched ==
    \A id \in DOMAIN returned :
        Latest(id) =>
            \A v \in DOMAIN before[id] :
                before[id][v].dealershipId # enqueued[id].dealershipId =>
                    /\ Has(catalog, v)
                    /\ catalog[v] = before[id][v]

(***************************************************************************)
(* A second termination signal.                                             *)
(***************************************************************************)
\* The calls of gracefulShutdown that have called connection.quit().
QuitCalls == {k \in 1..Len(shutdowns) : shutdowns[k].pc = "quit"}

\* C29 (as claimed): the shutdown sequence runs at most once: whatever
\* signals arrive, at most one call of gracefulShutdown gets to release the
\* connection, and a process that exits after a signal with every close()
\* resolved and the connection released has status 0.
C29_ShutdownRunsOnce ==
    /\ Cardinality(QuitCalls) <= 1
    /\ (shutdowns # <<>> /\ connection = "closed") => exitCode = Num(0)

(***************************************************************************)
(* The error a failed crm-push attempt is reported with.                    *)
(***************************************************************************)
\* The errors the try block of the processor can raise.
TryErrors == {LeadNotFound, PushFailed, StoreFailed}

\* C30: whenever an attempt of a crm-push job ends from the catch block, the
\* error reported to the queue is the one the try block raised (lead lookup,
\* external push, success update or disconnect), the final attempt included,
\* where it becomes the failed reason of the job; the catch block replaces
\* no error by one of its own and leaves the leads as they are.
C30_Step ==
    \A id \in DOMAIN crmRun :
        (crmRun[id].pc = "catch" /\ ~Has(crmRun', id)) =>
            LET raised == crmRun[id].error
                log == crmLog'[id]
            IN  /\ raised \in TryErrors
                /\ Len(log) = Len(crmLog[id]) + 1
                /\ log[Len(log)].error = raised
                /\ crmJobs'[id].state \in {"delayed", "failed"}
                /\ crmJobs'[id].state = "failed" =>
                      /\ crmJobs'[id].failedReason = raised
                      /\ crmJobs'[id].attemptsMade = crmJobs'[id].opts.attempts

C30_WitnessPush ==
    \E id \in DOMAIN crmJobs :
        /\ crmJobs[id].state = "failed"
        /\ crmJobs[id].failedReason = PushFailed
        /\ crmLog[id][3].push = "failed"

=============================================================================
